---- MODULE Spec2Model ----
(***************************************************************************)
(* Verification model of openaip-yaixm-to-geojson: the AirspaceConverter   *)
(* of src/src/airspace-converter.ts and the GeojsonPolygonValidator it     *)
(* drives.                                                                 *)
(*                                                                         *)
(* Data representation                                                     *)
(*   - strings of the YAIXM document are TLA+ strings; a missing (null or  *)
(*     undefined) field is NULL; the converter's unset `_identifier` is    *)
(*     UNDEFINED (a template literal prints it as 'undefined');            *)
(*   - an optional number is <<>> (unset) or <<n>>;                        *)
(*   - a position is <<X, Y, D>>: the point (X/D, Y/D), D > 0.  Document   *)
(*     coordinates lie on an integer lattice (D = 1); only the crossing    *)
(*     points computed by polygon unkinking have D > 1;                    *)
(*   - an outcome of an operation that may throw is a record with field    *)
(*     ok; when ok is FALSE the field error holds the thrown error.        *)
(***************************************************************************)
EXTENDS Integers, Sequences, FiniteSets, TLC

NULL == "<null>"
UNDEFINED == "undefined"
\* what an error message says about a context value it does not mention at all
ABSENT == "<absent>"

Some(v) == <<v>>
None == <<>>

Abs(n) == IF n < 0 THEN -n ELSE n
Sign(n) == IF n < 0 THEN -1 ELSE IF n > 0 THEN 1 ELSE 0

Reverse(s) == [i \in 1..Len(s) |-> s[Len(s) + 1 - i]]

\* Array.prototype.includes / some / find on a sequence
Includes(s, v) == \E i \in 1..Len(s) : s[i] = v

(***************************************************************************)
(* Errors.  `airspace` and `seq` are what the message text names: the      *)
(* value of _identifier / _sequenceNumber interpolated into it, or ABSENT  *)
(* / None when the message has no such part.                               *)
(***************************************************************************)
Err(kind, airspace, seq, detail) ==
    [kind |-> kind, airspace |-> airspace, seq |-> seq, detail |-> detail]

Fail(e) == [ok |-> FALSE, error |-> e]

(***************************************************************************)
(* Taxonomy Mapper: AirspaceConverter.mapClassAndType                      *)
(***************************************************************************)
ALLOWED_TYPES == {"CTA", "TMA", "CTR", "ATZ", "OTHER", "D", "P", "R", "D_OTHER"}
ALLOWED_LOCALTYPES ==
    {"MATZ", "GLIDER", "GVS", "HIRTA", "LASER", "DZ", "NOATZ", "UL", "ILS", "RMZ", "TMZ"}
ALLOWED_CLASSES == {"A", "B", "C", "D", "E", "F", "G", "UNCLASSIFIED"}

ruleTypes == {"TMZ", "TRA", "RMZ"}

\* airspaceRules.find((rule) => ruleTypes.includes(rule)): the first in list order
RECURSIVE FindRuleType(_, _)
FindRuleType(rules, i) ==
    IF i > Len(rules) THEN NULL
    ELSE IF rules[i] \in ruleTypes THEN rules[i]
    ELSE FindRuleType(rules, i + 1)

\* an override that takes the last flag of the list
OverrideType_LastFlag(type, airspaceRules) ==
    IF airspaceRules # None /\ (\E i \in 1..Len(airspaceRules[1]) : airspaceRules[1][i] \in ruleTypes)
    THEN FindRuleType(Reverse(airspaceRules[1]), 1)
    ELSE type

\* lines 365-372: a rule may overwrite the airspace type
OverrideType(type, airspaceRules) ==
    IF airspaceRules # None /\ (\E i \in 1..Len(airspaceRules[1]) : airspaceRules[1][i] \in ruleTypes)
    THEN FindRuleType(airspaceRules[1], 1)
    ELSE type

Mapped(type, class, activity) ==
    [ok |-> TRUE, type |-> type, class |-> class, activity |-> activity]

TaxError(identifier, detail) ==
    Fail(Err("UnmappedTaxonomy", identifier, None, detail))

\* lines 373-417: the switch on `type` when a class is given
MapTypeAndClass(identifier, type, airspaceClass) ==
    LET mappedType ==
            CASE type = "CTA" -> "CTA"
              [] type = "TMA" -> "TMA"
              [] type = "CTR" -> "CTR"
              [] type = "ATZ" -> "ATZ"
              [] type = "D" -> "DANGER"
              [] type = "P" -> "PROHIBITED"
              [] type = "R" -> "RESTRICTED"
              [] type = "TMZ" -> "TMZ"
              [] type = "RMZ" -> "RMZ"
              [] type = "TRA" -> "TRA"
              [] OTHER -> NULL
    IN  IF mappedType = NULL
        THEN TaxError(identifier, "type has no configured mapping")
        ELSE IF airspaceClass \in ALLOWED_CLASSES
        THEN Mapped(mappedType, airspaceClass, NULL)
        ELSE TaxError(identifier, "class has no configured mapping")

\* a table that files the gas venting station under type D
MapTypeAndLocalType_DangerKey(identifier, type, localType) ==
    IF <<type, localType>> = <<"D", "GVS">>
    THEN Mapped("WARNING", "UNCLASSIFIED", NULL)
    ELSE TaxError(identifier, "type and localtype have no configured mapping")

\* lines 418-473: the switch on `${type}|${localType}`
MapTypeAndLocalType(identifier, type, localType) ==
    LET comb == <<type, localType>>
    IN  CASE comb = <<"OTHER", "MATZ">> -> Mapped("MATZ", "G", NULL)
          [] comb \in {<<"TRA", "GLIDER">>, <<"D_OTHER", "GLIDER">>} ->
                Mapped("GLIDING_SECTOR", "UNCLASSIFIED", NULL)
          [] comb \in {<<"D_OTHER", "GVS">>, <<"D_OTHER", "HIRTA">>,
                       <<"D_OTHER", "LASER">>, <<"OTHER", "ILS">>} ->
                Mapped("WARNING", "UNCLASSIFIED", NULL)
          [] comb = <<"D_OTHER", "DZ">> ->
                Mapped("AERIAL_SPORTING_RECREATIONAL", "UNCLASSIFIED", "PARACHUTING")
          [] comb \in {<<"OTHER", "GLIDER">>, <<"OTHER", "NOATZ">>} ->
                Mapped("AERIAL_SPORTING_RECREATIONAL", "UNCLASSIFIED", "AEROCLUB_AERIAL_WORK")
          [] comb = <<"OTHER", "UL">> ->
                Mapped("AERIAL_SPORTING_RECREATIONAL", "UNCLASSIFIED", "ULM")
          [] comb \in {<<"RMZ", "RMZ">>, <<"OTHER", "RMZ">>} ->
                Mapped("RMZ", "UNCLASSIFIED", NULL)
          [] comb \in {<<"TMZ", "TMZ">>, <<"OTHER", "TMZ">>} ->
                Mapped("TMZ", "UNCLASSIFIED", NULL)
          [] OTHER -> TaxError(identifier, "type and localtype have no configured mapping")

\* lines 474-488: the switch on `type` alone
MapTypeOnly(identifier, type) ==
    CASE type \in {"ATZ", "MATZ"} -> Mapped(type, "G", NULL)
      [] type = "D" -> Mapped("DANGER", "UNCLASSIFIED", NULL)
      [] type = "P" -> Mapped("PROHIBITED", "UNCLASSIFIED", NULL)
      [] type = "R" -> Mapped("RESTRICTED", "UNCLASSIFIED", NULL)
      [] OTHER -> TaxError(identifier, "type has no configured mapping")

\* lines 352-363: the three membership checks
CheckAllowed(identifier, type, localType, airspaceClass) ==
    IF type \notin ALLOWED_TYPES
    THEN TaxError(identifier, "type is not in the list of allowed types")
    ELSE IF localType # NULL /\ localType \notin ALLOWED_LOCALTYPES
    THEN TaxError(identifier, "localtype is not in the list of allowed localtypes")
    ELSE IF airspaceClass # NULL /\ airspaceClass \notin ALLOWED_CLASSES
    THEN TaxError(identifier, "class is not in the list of allowed classes")
    ELSE [ok |-> TRUE]

\* a mapper that consults the type+localType table before the type+class table
mapClassAndType_LocalTypeFirst(identifier, type, localType, airspaceClass, airspaceRules) ==
    LET allowed == CheckAllowed(identifier, type, localType, airspaceClass)
        t == OverrideType(type, airspaceRules)
    IN  IF ~allowed.ok THEN allowed
        ELSE IF t # NULL /\ localType # NULL THEN MapTypeAndLocalType(identifier, t, localType)
        ELSE IF t # NULL /\ airspaceClass # NULL THEN MapTypeAndClass(identifier, t, airspaceClass)
        ELSE IF t # NULL THEN MapTypeOnly(identifier, t)
        ELSE TaxError(identifier, "no mapping for combination")

\* `identifier` is this._identifier at the time of the call
mapClassAndType(identifier, type, localType, airspaceClass, airspaceRules) ==
    LET allowed == CheckAllowed(identifier, type, localType, airspaceClass)
        t == OverrideType(type, airspaceRules)
    IN  IF ~allowed.ok THEN allowed
        ELSE IF t # NULL /\ airspaceClass # NULL THEN MapTypeAndClass(identifier, t, airspaceClass)
        ELSE IF t # NULL /\ localType # NULL THEN MapTypeAndLocalType(identifier, t, localType)
        ELSE IF t # NULL THEN MapTypeOnly(identifier, t)
        ELSE TaxError(identifier, "no mapping for combination")

(***************************************************************************)
(* Positions and planar predicates.  A position is <<X, Y, D>> with D > 0, *)
(* the point (X/D, Y/D) with longitude as x and latitude as y.             *)
(***************************************************************************)
Pt(x, y) == <<x, y, 1>>

\* a/b <= c/d and a/b < c/d for b, d > 0
RLe(a, b, c, d) == a * d <= c * b
RLt(a, b, c, d) == a * d < c * b

\* sign of the cross product (a - o) x (b - o)
Orient(o, a, b) ==
    Sign((a[1] * o[3] - o[1] * a[3]) * (b[2] * o[3] - o[2] * b[3])
         - (a[2] * o[3] - o[2] * a[3]) * (b[1] * o[3] - o[1] * b[3]))

\* p lies on the closed segment a-b
OnSegment(a, b, p) ==
    /\ Orient(a, b, p) = 0
    /\ \/ RLe(a[1], a[3], p[1], p[3]) /\ RLe(p[1], p[3], b[1], b[3])
       \/ RLe(b[1], b[3], p[1], p[3]) /\ RLe(p[1], p[3], a[1], a[3])
    /\ \/ RLe(a[2], a[3], p[2], p[3]) /\ RLe(p[2], p[3], b[2], b[3])
       \/ RLe(b[2], b[3], p[2], p[3]) /\ RLe(p[2], p[3], a[2], a[3])

\* the open segments a-b and c-d cross in one interior point of both
ProperCrossing(a, b, c, d) ==
    /\ Orient(a, b, c) * Orient(a, b, d) < 0
    /\ Orient(c, d, a) * Orient(c, d, b) < 0

\* the closed segments a-b and c-d have a point in common
SegmentsIntersect(a, b, c, d) ==
    \/ ProperCrossing(a, b, c, d)
    \/ OnSegment(a, b, c) \/ OnSegment(a, b, d)
    \/ OnSegment(c, d, a) \/ OnSegment(c, d, b)

(***************************************************************************)
(* Polygon Assembler: the tail of AirspaceConverter.createPolygonGeometry  *)
(* (lineString, lineToPolygon with autoComplete, rewind).                  *)
(***************************************************************************)
\* @turf/helpers polygon(): the least number of positions of a linear ring
MinRingPositions == 4
\* @turf/helpers lineString(): the least number of positions of a line
MinLinePositions == 2

TurfError(detail) == Fail(Err("TurfError", ABSENT, None, detail))

IsClosed(coords) == Len(coords) > 0 /\ coords[1] = coords[Len(coords)]

\* a variant that always appends the first position
autoCompleteCoords_Always(coords) == Append(coords, coords[1])

\* @turf/line-to-polygon autoCompleteCoords: close the ring if first and last differ
autoCompleteCoords(coords) ==
    IF coords[1][1] # coords[Len(coords)][1] \/ coords[1][2] # coords[Len(coords)][2]
    THEN Append(coords, coords[1])
    ELSE coords

\* @turf/boolean-clockwise on document positions (D = 1)
RECURSIVE ClockwiseSum(_, _)
ClockwiseSum(ring, i) ==
    IF i > Len(ring) THEN 0
    ELSE (ring[i][1] - ring[i - 1][1]) * (ring[i][2] + ring[i - 1][2]) + ClockwiseSum(ring, i + 1)

booleanClockwise(ring) == ClockwiseSum(ring, 2) > 0

\* @turf/rewind with reverse: false on a polygon's exterior ring
rewind(ring) == IF booleanClockwise(ring) THEN Reverse(ring) ELSE ring

\* @turf/helpers polygon([coords])
polygon(ring) ==
    IF Len(ring) < MinRingPositions
    THEN TurfError("Each LinearRing of a Polygon must have 4 or more Positions.")
    ELSE IF ring[1] # ring[Len(ring)]
    THEN TurfError("First and last Position are not equivalent.")
    ELSE [ok |-> TRUE, ring |-> ring]

\* @turf/line-to-polygon on a LineString feature (autoComplete as given)
lineToPolygon(coords, autoComplete) ==
    IF Len(coords) = 0 THEN TurfError("line must contain coordinates")
    ELSE polygon(IF autoComplete THEN autoCompleteCoords(coords) ELSE coords)

\* lines 587-598 of createPolygonGeometry, on the accumulated _boundaryCoordinates
AssemblePolygon(boundaryCoordinates) ==
    IF Len(boundaryCoordinates) < MinLinePositions
    THEN TurfError("coordinates must be an array of two or more positions")
    ELSE LET polygonFeature == lineToPolygon(boundaryCoordinates, TRUE)
         IN  IF polygonFeature.ok
             THEN [ok |-> TRUE, ring |-> rewind(polygonFeature.ring)]
             ELSE polygonFeature

(***************************************************************************)
(* Topology Validator: GeojsonPolygonValidator.validate / isValid, with    *)
(* the JSTS predicates IsValidOp, IsSimpleOp read as the planar ones.      *)
(***************************************************************************)
\* JSTS drops repeated consecutive points before it builds the edge graph
RECURSIVE RemoveRepeated(_)
RemoveRepeated(ring) ==
    IF Len(ring) <= 1 THEN ring
    ELSE IF ring[1] = ring[2] THEN RemoveRepeated(Tail(ring))
    ELSE <<ring[1]>> \o RemoveRepeated(Tail(ring))

\* two consecutive edges p-q, q-r fold back onto one another
FoldsBack(p, q, r) == OnSegment(p, q, r) \/ OnSegment(q, r, p)

\* the closed ring has no self-intersection and no self-touch
SimpleRing(ring) ==
    LET r == RemoveRepeated(ring)
        n == Len(r) - 1
        After(i) == IF i = n THEN 1 ELSE i + 1
    IN  /\ n >= 3
        /\ r[1] = r[n + 1]
        /\ \A i \in 1..n : ~FoldsBack(r[i], r[i + 1], r[After(i) + 1])
        /\ \A i \in 1..n : \A j \in (i + 1)..n :
              (j # i + 1 /\ ~(i = 1 /\ j = n))
                  => ~SegmentsIntersect(r[i], r[i + 1], r[j], r[j + 1])

isValidPolygon(ring) == SimpleRing(ring)
isSimple(ring) == SimpleRing(ring)
\* truthy whenever the linework is not simple (the located node, or the empty object)
getSelfIntersections(ring) == ~SimpleRing(ring)

ValidatorError(detail) == Fail(Err("GeometryInvalid", ABSENT, None, detail))

\* GeojsonPolygonValidator.extractGeometry
extractGeometry(ring) ==
    IF Len(ring) <= 2
    THEN ValidatorError("Polygon has insufficient number of coordinates")
    ELSE [ok |-> TRUE, coordinates |-> ring]

\* GeojsonPolygonValidator.validate: [ok |-> TRUE] or the error it throws
validate(ring) ==
    LET extracted == extractGeometry(ring)
        polygonFeature == lineToPolygon(ring, TRUE)
    IN  IF ~extracted.ok THEN extracted
        ELSE IF ~polygonFeature.ok THEN polygonFeature
        ELSE IF getSelfIntersections(polygonFeature.ring)
        THEN ValidatorError("Geometry is invalid due to a self intersection")
        ELSE IF ~isValidPolygon(polygonFeature.ring) \/ ~isSimple(polygonFeature.ring)
        THEN ValidatorError("Geometry is invalid")
        ELSE [ok |-> TRUE]

\* GeojsonPolygonValidator.isValid
isValid(ring) == validate(ring).ok

(***************************************************************************)
(* Bearings.  The bearing from p to q is measured clockwise from north in  *)
(* degrees, [0, 360).  It is computed on the lattice as the position of    *)
(* q - p on the square ring of radius R = max(|dx|, |dy|) around p, which  *)
(* has 8R lattice points, 45/R degrees apart: the bearing is the rational  *)
(* 45 * RingIndex / R.  Opposite directions differ by exactly 180.         *)
(***************************************************************************)
Max(a, b) == IF a >= b THEN a ELSE b
Min(a, b) == IF a <= b THEN a ELSE b

RingRadius(dx, dy) == Max(Abs(dx), Abs(dy))

RingIndex(dx, dy) ==
    LET R == RingRadius(dx, dy)
    IN  IF dy = R /\ dx >= 0 THEN dx
        ELSE IF dx = R THEN R + (R - dy)
        ELSE IF dy = -R THEN 3 * R + (R - dx)
        ELSE IF dx = -R THEN 5 * R + (dy + R)
        ELSE 7 * R + (dx + R)

\* the offset of the lattice point with index idx on the ring of radius R
RingOffset(R, idx) ==
    IF idx <= R THEN <<idx, R>>
    ELSE IF idx <= 3 * R THEN <<R, 2 * R - idx>>
    ELSE IF idx <= 5 * R THEN <<4 * R - idx, -R>>
    ELSE IF idx <= 7 * R THEN <<-R, idx - 6 * R>>
    ELSE <<idx - 8 * R, R>>

\* @turf/bearing as the rational <<numerator, denominator>>; identical points give 0
BearingQ(p, q) ==
    LET dx == q[1] - p[1]
        dy == q[2] - p[2]
    IN  IF dx = 0 /\ dy = 0 THEN <<0, 1>>
        ELSE <<45 * RingIndex(dx, dy), RingRadius(dx, dy)>>

\* Math.abs(bearingA - bearingB) = 180 + variance, for variance 0
BearingDeltaIs180(p, a, b) ==
    LET ba == BearingQ(p, a)
        bb == BearingQ(p, b)
    IN  Abs(ba[1] * bb[2] - bb[1] * ba[2]) = 180 * ba[2] * bb[2]

(***************************************************************************)
(* Topology Repairer: GeojsonPolygonValidator.makeValid and its stages.    *)
(***************************************************************************)
\* the lattice spacing is one nautical mile (one minute of latitude)
MetresPerNM == 1852
\* removeDuplicates drops a point closer than 0.2 km to a point already kept
DuplicateMetres == 200

\* calcDistance(a, b, { units: 'kilometers' }) < 0.2
TooClose(a, b) ==
    ((a[1] - b[1]) * (a[1] - b[1]) + (a[2] - b[2]) * (a[2] - b[2]))
        * (MetresPerNM * MetresPerNM) < DuplicateMetres * DuplicateMetres

RECURSIVE RemoveDuplicatesFrom(_, _, _)
RemoveDuplicatesFrom(coordinates, i, processed) ==
    IF i > Len(coordinates) - 1 THEN processed
    ELSE IF \E k \in 1..Len(processed) : TooClose(processed[k], coordinates[i])
    THEN RemoveDuplicatesFrom(coordinates, i + 1, processed)
    ELSE RemoveDuplicatesFrom(coordinates, i + 1, Append(processed, coordinates[i]))

\* a deduplication that treats the last point like any other
removeDuplicates_LastUnprotected(coordinates) ==
    IF Len(coordinates) < 2 THEN coordinates
    ELSE RemoveDuplicatesFrom(Append(coordinates, coordinates[1]), 2, <<coordinates[1]>>)

\* GeojsonPolygonValidator.removeDuplicates
removeDuplicates(coordinates) ==
    IF Len(coordinates) < 2 THEN coordinates
    ELSE Append(RemoveDuplicatesFrom(coordinates, 2, <<coordinates[1]>>),
                coordinates[Len(coordinates)])

\* isIntermediateCoordinate (greedyVariance 0); coordIdx and i are 1-based here
isIntermediateCoordinate(coordinates, coordIdx) ==
    \E i \in 1..(Len(coordinates) - 1) :
        /\ coordIdx > i + 1
        /\ BearingDeltaIs180(coordinates[coordIdx], coordinates[i], coordinates[i + 1])

RECURSIVE RemoveIntermediateFrom(_, _)
RemoveIntermediateFrom(coordinates, i) ==
    IF i > Len(coordinates) THEN <<>>
    ELSE (IF i = 1 \/ ~isIntermediateCoordinate(coordinates, i)
          THEN <<coordinates[i]>> ELSE <<>>)
         \o RemoveIntermediateFrom(coordinates, i + 1)

\* GeojsonPolygonValidator.removeIntermediatePoints
removeIntermediatePoints(coordinates) == RemoveIntermediateFrom(coordinates, 1)

(***************************************************************************)
(* @turf/unkink-polygon (simplepolygon): a ring whose edges cross in       *)
(* interior points is split at every crossing; arriving at a crossing on   *)
(* one edge, the walk continues on the other edge, in the ring's own       *)
(* direction of traversal.                                                 *)
(***************************************************************************)
RECURSIVE GCD(_, _)
GCD(a, b) == IF b = 0 THEN a ELSE GCD(b, a % b)

\* the position (x/d, y/d) in lowest terms with a positive denominator
Normalise(x, y, d) ==
    LET g == GCD(GCD(Abs(x), Abs(y)), Abs(d))
        sgn == IF d < 0 THEN -1 ELSE 1
    IN  <<(sgn * x) \div g, (sgn * y) \div g, (sgn * d) \div g>>

VCross(ax, ay, bx, by) == ax * by - ay * bx

NumEdges(ring) == Len(ring) - 1

AdjacentEdges(n, i, j) == j = i + 1 \/ (i = 1 /\ j = n)

\* pairs <<i, j>>, i < j, of non-adjacent edges that cross in an interior point
Crossings(ring) ==
    LET n == NumEdges(ring)
    IN  {c \in (1..n) \X (1..n) :
            /\ c[1] < c[2]
            /\ ~AdjacentEdges(n, c[1], c[2])
            /\ ProperCrossing(ring[c[1]], ring[c[1] + 1], ring[c[2]], ring[c[2] + 1])}

CrossingDen(ring, c) ==
    VCross(ring[c[1] + 1][1] - ring[c[1]][1], ring[c[1] + 1][2] - ring[c[1]][2],
           ring[c[2] + 1][1] - ring[c[2]][1], ring[c[2] + 1][2] - ring[c[2]][2])

\* the crossing's parameter along edge e (one of c[1], c[2]) as <<num, den>>, den > 0
CrossingParam(ring, c, e) ==
    LET den == CrossingDen(ring, c)
        cax == ring[c[2]][1] - ring[c[1]][1]
        cay == ring[c[2]][2] - ring[c[1]][2]
        num == IF e = c[1]
               THEN VCross(cax, cay, ring[c[2] + 1][1] - ring[c[2]][1],
                                     ring[c[2] + 1][2] - ring[c[2]][2])
               ELSE VCross(cax, cay, ring[c[1] + 1][1] - ring[c[1]][1],
                                     ring[c[1] + 1][2] - ring[c[1]][2])
    IN  IF den < 0 THEN <<-num, -den>> ELSE <<num, den>>

CrossingPoint(ring, c) ==
    LET t == CrossingParam(ring, c, c[1])
        a == ring[c[1]]
        b == ring[c[1] + 1]
    IN  Normalise(a[1] * t[2] + t[1] * (b[1] - a[1]), a[2] * t[2] + t[1] * (b[2] - a[2]), t[2])

RECURSIVE SortCrossings(_, _, _)
SortCrossings(ring, S, e) ==
    IF S = {} THEN <<>>
    ELSE LET m == CHOOSE c \in S : \A d \in S :
                     RLe(CrossingParam(ring, c, e)[1], CrossingParam(ring, c, e)[2],
                         CrossingParam(ring, d, e)[1], CrossingParam(ring, d, e)[2])
         IN  <<m>> \o SortCrossings(ring, S \ {m}, e)

\* the ring's vertices <<0, i, 0, 0>> and crossings <<1, i, j, e>> (the crossing of
\* edges i and j met on edge e) in the order in which the ring passes them
RECURSIVE Walk(_, _, _)
Walk(ring, X, e) ==
    IF e > NumEdges(ring) THEN <<>>
    ELSE LET sorted == SortCrossings(ring, {c \in X : c[1] = e \/ c[2] = e}, e)
         IN  <<<<0, e, 0, 0>>>>
             \o [k \in 1..Len(sorted) |-> <<1, sorted[k][1], sorted[k][2], e>>]
             \o Walk(ring, X, e + 1)

WalkSucc(W, k) ==
    LET it == W[k]
        twin == <<1, it[2], it[3], IF it[4] = it[2] THEN it[3] ELSE it[2]>>
    IN  IF it[1] = 0 THEN (k % Len(W)) + 1
        ELSE ((CHOOSE m \in 1..Len(W) : W[m] = twin) % Len(W)) + 1

RECURSIVE Orbit(_, _, _, _)
Orbit(W, start, k, acc) ==
    IF k = start /\ acc # <<>> THEN acc
    ELSE Orbit(W, start, WalkSucc(W, k), Append(acc, k))

ItemPosition(ring, it) ==
    IF it[1] = 0 THEN ring[it[2]] ELSE CrossingPoint(ring, <<it[2], it[3]>>)

\* the simple loops of a ring with crossings X, each as a closed ring
Loops(ring, X) ==
    LET W == Walk(ring, X, 1)
        orbits == {Orbit(W, k, k, <<>>) : k \in 1..Len(W)}
        firsts == {o \in orbits : \A m \in 1..Len(o) : o[1] <= o[m]}
    IN  {[m \in 1..(Len(o) + 1) |->
            ItemPosition(ring, W[o[IF m > Len(o) THEN 1 ELSE m]])] : o \in firsts}

HasDuplicateVertices(ring) ==
    \E i \in 1..NumEdges(ring) : \E j \in (i + 1)..NumEdges(ring) : ring[i] = ring[j]

\* unkinkPolygon: [ok |-> TRUE, polygons |-> the set of rings] or the error it throws
unkinkPolygon(ring) ==
    IF HasDuplicateVertices(ring)
    THEN TurfError("The input polygon may not have duplicate vertices")
    ELSE IF Crossings(ring) = {} THEN [ok |-> TRUE, polygons |-> {ring}]
    ELSE [ok |-> TRUE, polygons |-> Loops(ring, Crossings(ring))]

\* rationals <<num, den>>, den > 0
RNorm(n, d) == LET g == GCD(Abs(n), Abs(d)) IN <<n \div g, d \div g>>
RAdd(p, q) == RNorm(p[1] * q[2] + q[1] * p[2], p[2] * q[2])

\* twice the signed area (shoelace; counter-clockwise positive) as a rational
RECURSIVE SignedArea2(_, _)
SignedArea2(ring, i) ==
    IF i >= Len(ring) THEN <<0, 1>>
    ELSE RAdd(RNorm(ring[i][1] * ring[i + 1][2] - ring[i + 1][1] * ring[i][2],
                    ring[i][3] * ring[i + 1][3]),
              SignedArea2(ring, i + 1))

\* @turf/area compares as the absolute planar area does
AreaGe(r1, r2) ==
    LET a == SignedArea2(r1, 1)
        b == SignedArea2(r2, 1)
    IN  Abs(a[1]) * b[2] >= Abs(b[1]) * a[2]

\* getLargestPolygon: a polygon of greatest area (the last such one in the list order
\* of unkinkPolygon, which is not modelled: any of them)
getLargestPolygon(polygons) == {r \in polygons : \A q \in polygons : AreaGe(r, q)}

SetMin(S) == CHOOSE m \in S : \A v \in S : m <= v
SetMax(S) == CHOOSE m \in S : \A v \in S : m >= v

\* @turf/envelope of lattice points: the bounding rectangle, counter-clockwise from
\* its south-west corner
envelope(coords) ==
    LET xs == {coords[i][1] : i \in 1..Len(coords)}
        ys == {coords[i][2] : i \in 1..Len(coords)}
        west == SetMin(xs)
        east == SetMax(xs)
        south == SetMin(ys)
        north == SetMax(ys)
    IN  <<Pt(west, south), Pt(east, south), Pt(east, north), Pt(west, north), Pt(west, south)>>

\* createFixedPolygon, lines 1131-1136: the line string closed into a polygon
ClosedLineString(coords) ==
    IF Len(coords) < MinLinePositions
    THEN TurfError("coordinates must be an array of two or more positions")
    ELSE lineToPolygon(coords, TRUE)

\* createFixedPolygon, lines 1137-1139
UnkinkedPolygons(polygonFeature) ==
    IF polygonFeature.ok THEN unkinkPolygon(polygonFeature.ring) ELSE polygonFeature

\* createFixedPolygon, lines 1140-1157: the largest unkinked polygon, or the envelope of
\* the deduplicated points when anything above threw
LargestOrEnvelope(deduplicated, unkinked) ==
    IF unkinked.ok THEN getLargestPolygon(unkinked.polygons)
    ELSE {envelope(deduplicated)}

\* GeojsonPolygonValidator.createFixedPolygon: the set of rings it may return
createFixedPolygon(coordinates) ==
    LargestOrEnvelope(removeDuplicates(coordinates),
                      UnkinkedPolygons(ClosedLineString(removeIntermediatePoints(coordinates))))

\* makeValid, lines 1063-1066
FixedFrom(extracted) ==
    IF ~extracted.ok THEN extracted
    ELSE [ok |-> TRUE, rings |-> createFixedPolygon(extracted.coordinates)]

\* GeojsonPolygonValidator.makeValid: [ok, rings] or the error it throws
makeValid(ring) ==
    IF isValidPolygon(ring) THEN [ok |-> TRUE, rings |-> {ring}]
    ELSE FixedFrom(extractGeometry(ring))

\* fixGeometry, lines 830-840: the error of makeValid is thrown again with the
\* airspace and the sequence number
RepairOutcome(identifier, sequenceNumber, made) ==
    IF made.ok THEN made
    ELSE Fail(Err("RepairFailed", identifier, sequenceNumber, made.error.detail))

\* AirspaceConverter.fixGeometry: [ok, rings] or the RepairFailed error it throws
fixGeometry(identifier, sequenceNumber, ring) ==
    IF isValid(ring) THEN [ok |-> TRUE, rings |-> {ring}]
    ELSE RepairOutcome(identifier, sequenceNumber, makeValid(ring))

(***************************************************************************)
(* Coordinate Transformer and Boundary Resolver.                           *)
(* A coordinate token is <<wellFormed, lat, lon>>: wellFormed says whether *)
(* the string matches REGEX_COORDINATES, lat and lon are its latitude and  *)
(* longitude in lattice steps.  A radius token is <<wellFormed, nm>>.      *)
(***************************************************************************)
REGEX_COORDINATES(token) == token[1]
REGEX_ARC_RADIUS(radius) == radius[1]
REGEX_ARC_DIR(dir) == dir \in {"cw", "ccw"}

\* AirspaceConverter.transformCoordinates: [longitude, latitude]
transformCoordinates(token) == Pt(token[3], token[2])

BoundaryError(identifier, sequenceNumber, detail) ==
    Fail(Err("InvalidBoundary", identifier, sequenceNumber, detail))

\* AirspaceConverter.createCoordinatesFromLine
createCoordinatesFromLine(identifier, sequenceNumber, line) ==
    IF Len(line) = 0
    THEN BoundaryError(identifier, sequenceNumber, "Invalid line boundary definition")
    ELSE IF \E i \in 1..Len(line) : ~REGEX_COORDINATES(line[i])
    THEN Fail(Err("InvalidCoordinate", identifier, sequenceNumber, "Invalid coordinate in line"))
    ELSE [ok |-> TRUE, coordinates |-> [i \in 1..Len(line) |-> transformCoordinates(line[i])]]

\* @turf/bearing in degrees, (-180, 180]; exact where the lattice bearing is a whole
\* number of degrees
calcBearing(p, q) ==
    LET b == BearingQ(p, q)[1] \div BearingQ(p, q)[2]
    IN  IF b > 180 THEN b - 360 ELSE b

\* @turf/helpers convertAngleTo360
convertAngleTo360(alpha) == alpha % 360

\* @turf/destination for the bearing num/den degrees: the lattice point of the ring
\* of radius radiusMetres / MetresPerNM around center at that bearing
destination(center, radiusMetres, num, den) ==
    LET R == radiusMetres \div MetresPerNM
        idx == ((num % (360 * den)) * R) \div (45 * den)
        off == RingOffset(R, idx)
    IN  Pt(center[1] + off[1], center[2] + off[2])

\* @turf/circle: steps positions counter-clockwise from north, then the first again
circle(center, radiusMetres, steps) ==
    [i \in 1..(steps + 1) |->
        destination(center, radiusMetres, (IF i > steps THEN 0 ELSE i - 1) * (-360), steps)]

\* @turf/line-arc: steps equal angular steps from bearing1 clockwise to bearing2
lineArc(center, radiusMetres, bearing1, bearing2, steps) ==
    LET angle1 == convertAngleTo360(bearing1)
        angle2 == convertAngleTo360(bearing2)
        arcStartDegree == angle1
        arcEndDegree == IF angle1 < angle2 THEN angle2 ELSE angle2 + 360
    IN  IF angle1 = angle2 THEN circle(center, radiusMetres, steps)
        ELSE [i \in 1..(steps + 1) |->
                destination(center, radiusMetres,
                            arcStartDegree * steps + (i - 1) * (arcEndDegree - arcStartDegree),
                            steps)]

\* AirspaceConverter.createCoordinatesFromArc
createCoordinatesFromArc(identifier, sequenceNumber, boundaryCoordinates, arc, geometryDetail) ==
    IF Len(boundaryCoordinates) = 0
    THEN BoundaryError(identifier, sequenceNumber, "Previous coordinate pair is missing")
    ELSE IF ~REGEX_ARC_DIR(arc.dir)
    THEN BoundaryError(identifier, sequenceNumber, "Invalid arc direction")
    ELSE IF ~REGEX_ARC_RADIUS(arc.radius)
    THEN BoundaryError(identifier, sequenceNumber, "Invalid arc radius")
    ELSE IF ~REGEX_COORDINATES(arc.centre)
    THEN BoundaryError(identifier, sequenceNumber, "Invalid arc centre")
    ELSE IF ~REGEX_COORDINATES(arc.to)
    THEN BoundaryError(identifier, sequenceNumber, "Invalid arc to")
    ELSE LET isClockwise == arc.dir = "cw"
             lastCoord == boundaryCoordinates[Len(boundaryCoordinates)]
             centerPoint == transformCoordinates(arc.centre)
             toPoint == transformCoordinates(arc.to)
             startPoint == IF isClockwise THEN lastCoord ELSE toPoint
             endPoint == IF isClockwise THEN toPoint ELSE lastCoord
             radiusKm == arc.radius[2] * MetresPerNM
             startBearing == calcBearing(centerPoint, startPoint)
             endBearing == calcBearing(centerPoint, endPoint)
             arcCoordinates == lineArc(centerPoint, radiusKm, startBearing, endBearing, geometryDetail)
         IN  [ok |-> TRUE,
              coordinates |-> IF isClockwise THEN arcCoordinates ELSE Reverse(arcCoordinates)]

\* AirspaceConverter.createCoordinatesFromCircle
createCoordinatesFromCircle(identifier, sequenceNumber, circ, geometryDetail) ==
    IF ~REGEX_ARC_RADIUS(circ.radius)
    THEN BoundaryError(identifier, sequenceNumber, "Invalid arc radius")
    ELSE IF ~REGEX_COORDINATES(circ.centre)
    THEN BoundaryError(identifier, sequenceNumber, "Invalid arc centre")
    ELSE [ok |-> TRUE,
          coordinates |-> circle(transformCoordinates(circ.centre),
                                 circ.radius[2] * MetresPerNM, geometryDetail)]

\* the switch of createPolygonGeometry (lines 559-585) on one boundary definition:
\* the coordinates to push, or the error thrown
ResolveBoundaryDefinition(identifier, sequenceNumber, boundaryCoordinates, def, geometryDetail) ==
    CASE def.kind = "line" ->
            createCoordinatesFromLine(identifier, sequenceNumber, def.line)
      [] def.kind = "arc" ->
            createCoordinatesFromArc(identifier, sequenceNumber, boundaryCoordinates, def, geometryDetail)
      [] def.kind = "circle" ->
            createCoordinatesFromCircle(identifier, sequenceNumber, def, geometryDetail)
      [] OTHER ->
            Fail(Err("UnsupportedBoundary", identifier, sequenceNumber, "Unsupported boundary type"))

(***************************************************************************)
(* Vertical limits, names, ground services and the emitted feature.        *)
(* A ceiling definition is the sequence of the lexemes of its string: a    *)
(* number is [t |-> "num", whole, frac] with the digits before and after   *)
(* the decimal point (frac is empty when there is no point), a run of      *)
(* whitespace is the word " ", any other word is itself ("ft", "FT",       *)
(* "SFC", "FL", ...).  No two numbers and no two runs of whitespace follow *)
(* one another.  A number value is [nan, num, den]: NaN or num / den.      *)
(***************************************************************************)
Digits(whole, frac) == [t |-> "num", whole |-> whole, frac |-> frac]
Word(w) == [t |-> w, whole |-> <<>>, frac |-> <<>>]

WithoutSpace(def) == SelectSeq(def, LAMBDA k : k.t # " ")

\* /^(SFC)$/
REGEX_CEILING_SURFACE(ceilingDefinition) == ceilingDefinition = <<Word("SFC")>>

\* /^(\d+(\.\d+)?)\s*(ft|FT)?\s*(SFC)?$/
REGEX_CEILING_FEET(ceilingDefinition) ==
    /\ Len(ceilingDefinition) >= 1
    /\ ceilingDefinition[1].t = "num"
    /\ LET rest == Tail(ceilingDefinition)
           words == [i \in 1..Len(WithoutSpace(rest)) |-> WithoutSpace(rest)[i].t]
       IN  /\ words \in {<<>>, <<"ft">>, <<"FT">>, <<"SFC">>, <<"ft", "SFC">>, <<"FT", "SFC">>}
           /\ (Len(rest) > 0 /\ rest[Len(rest)].t = " ") => ~Includes(words, "SFC")

\* /^FL\s*(\d{2,})?$/
REGEX_CEILING_FLIGHT_LEVEL(ceilingDefinition) ==
    /\ Len(ceilingDefinition) >= 1
    /\ ceilingDefinition[1].t = "FL"
    /\ LET rest == Tail(ceilingDefinition)
           level == WithoutSpace(rest)
       IN  /\ Len(rest) <= 2
           /\ Len(rest) = 2 => rest[1].t = " "
           /\ Len(level) <= 1
           /\ Len(level) = 1 =>
                (level[1].t = "num" /\ level[1].frac = <<>> /\ Len(level[1].whole) >= 2)

RECURSIVE DigitsValue(_)
DigitsValue(digits) ==
    IF Len(digits) = 0 THEN 0
    ELSE 10 * DigitsValue(SubSeq(digits, 1, Len(digits) - 1)) + digits[Len(digits)]

NaN == [nan |-> TRUE, num |-> 0, den |-> 1]

\* parseFloat of a captured number
parseFloat(number) ==
    [nan |-> FALSE, num |-> DigitsValue(number.whole \o number.frac),
     den |-> 10 ^ Len(number.frac)]

\* parseInt of a captured group of digits: the group is <<>> when it took no part in
\* the match (undefined)
parseInt(group) ==
    IF group = <<>> THEN NaN
    ELSE [nan |-> FALSE, num |-> DigitsValue(group[1].whole), den |-> 1]

\* AirspaceConverter.createCeiling
createCeiling(identifier, sequenceNumber, ceilingDefinition) ==
    IF /\ ~REGEX_CEILING_FEET(ceilingDefinition)
       /\ ~REGEX_CEILING_FLIGHT_LEVEL(ceilingDefinition)
       /\ ~REGEX_CEILING_SURFACE(ceilingDefinition)
    THEN Fail(Err("InvalidVerticalLimit", identifier, sequenceNumber, "Invalid ceiling definition"))
    ELSE IF REGEX_CEILING_SURFACE(ceilingDefinition)
    THEN [ok |-> TRUE,
          ceiling |-> [value |-> [nan |-> FALSE, num |-> 0, den |-> 1], unit |-> "FT",
                       referenceDatum |-> "GND"]]
    ELSE IF REGEX_CEILING_FEET(ceilingDefinition)
    THEN LET altitudeParts == WithoutSpace(ceilingDefinition)
             hasUnit == Len(altitudeParts) >= 2 /\ altitudeParts[2].t \in {"ft", "FT"}
             referenceDatum == IF altitudeParts[Len(altitudeParts)].t = "SFC" THEN "SFC" ELSE "MSL"
         IN  IF ~hasUnit
             THEN Fail(Err("TypeError", ABSENT, None,
                           "Cannot read properties of undefined (reading 'toUpperCase')"))
             ELSE [ok |-> TRUE,
                   ceiling |-> [value |-> parseFloat(altitudeParts[1]), unit |-> "FT",
                                referenceDatum |-> IF referenceDatum = "SFC" THEN "GND"
                                                   ELSE referenceDatum]]
    ELSE [ok |-> TRUE,
          ceiling |-> [value |-> parseInt(SelectSeq(ceilingDefinition, LAMBDA k : k.t = "num")),
                       unit |-> "FL", referenceDatum |-> "STD"]]

\* a name that always ends in the sequence number used in error messages
buildAirspaceName_AlwaysSuffixed(name, seq) == <<name, IF seq = None THEN 0 ELSE seq[1]>>

\* AirspaceConverter.buildAirspaceName: "name" or "name seq"; an optional seq is
\* None or Some(n)
buildAirspaceName(name, seq) == IF seq = None THEN <<name>> ELSE <<name, seq[1]>>

\* this._sequenceNumber = seq || 0
SequenceNumberOf(seq) == IF seq = None THEN 0 ELSE seq[1]

\* sequenceClass || baseClass, sequenceRules || baseRules
OrElse(a, b) == IF a = NULL THEN b ELSE a

\* sequence rules merged with the base rules
OrElseRules_Merged(a, b) ==
    IF a = None THEN b ELSE IF b = None THEN a ELSE Some(b[1] \o a[1])

OrElseRules(a, b) == IF a = None THEN b ELSE a

\* a service frequency is <<whole, decimals>>, the decimals as the digits that
\* Number.toString() prints; convert pads them to three (lines 195-200).  In a service
\* file the frequency of a record is optional: None or Some(<<whole, decimals>>).
PadEnd3(digits) ==
    [i \in 1..(IF Len(digits) > 3 THEN Len(digits) ELSE 3) |->
        IF i <= Len(digits) THEN digits[i] ELSE 0]

FormatFrequency(frequency) ==
    <<frequency[1], PadEnd3(IF Len(frequency[2]) = 0 THEN <<0, 0, 0>> ELSE frequency[2])>>

\* serviceItem.frequency.toString() of a record that has no frequency (line 195)
LacksFrequency(service) == \E i \in 1..Len(service) : service[i].frequency = None

ServiceFrequencyError ==
    Err("TypeError", ABSENT, None, "Cannot read properties of undefined (reading 'toString')")

FormatServices(service) ==
    [i \in 1..Len(service) |->
        [callsign |-> service[i].callsign,
         frequency |-> FormatFrequency(service[i].frequency[1]),
         controls |-> service[i].controls]]

\* a lookup that returns the last service controlling id
createGroundServiceProperty_LastMatch(id, services) ==
    IF \E i \in 1..Len(services) : id \in services[i].controls
    THEN LET i == CHOOSE k \in 1..Len(services) :
                    /\ id \in services[k].controls
                    /\ \A j \in (k + 1)..Len(services) : id \notin services[j].controls
         IN  Some([callsign |-> services[i].callsign, frequency |-> services[i].frequency])
    ELSE None

\* AirspaceConverter.createGroundServiceProperty: the first service controlling id
createGroundServiceProperty(id, services) ==
    IF \E i \in 1..Len(services) : id \in services[i].controls
    THEN LET i == CHOOSE k \in 1..Len(services) :
                    /\ id \in services[k].controls
                    /\ \A j \in 1..(k - 1) : id \notin services[j].controls
         IN  Some([callsign |-> services[i].callsign, frequency |-> services[i].frequency])
    ELSE None

\* the feature of lines 275-303; a property cleanObject drops is ABSENT (None for
\* the ground service)
BuildFeature(airspaceName, mapped, upperCeiling, lowerCeiling, airspaceRules, groundService, geometry) ==
    [name |-> airspaceName,
     type |-> mapped.type,
     class |-> mapped.class,
     upperCeiling |-> upperCeiling,
     lowerCeiling |-> lowerCeiling,
     activatedByNotam |-> (airspaceRules # None /\ Includes(airspaceRules[1], "NOTAM")),
     activity |-> IF mapped.activity = NULL THEN "NONE" ELSE mapped.activity,
     remarks |-> airspaceRules,
     groundService |-> groundService,
     geometry |-> geometry]

\* an emitted feature is appended to the end of the feature list
PushFeature_Front(features, feature) == <<feature>> \o features

\* features.push(cleanObject(feature))
PushFeature(features, feature) == Append(features, feature)

(***************************************************************************)
(* Inputs.  T(x, y) is the well-formed coordinate token of the lattice     *)
(* point with longitude x and latitude y.                                  *)
(***************************************************************************)
T(x, y) == <<TRUE, y, x>>
BadToken == <<FALSE, 0, 0>>

Line(tokens) ==
    [kind |-> "line", line |-> tokens, dir |-> NULL, radius |-> <<FALSE, 0>>,
     centre |-> BadToken, to |-> BadToken]
Arc(dir, radius, centre, to) ==
    [kind |-> "arc", line |-> <<>>, dir |-> dir, radius |-> radius, centre |-> centre, to |-> to]
Circle(radius, centre) ==
    [kind |-> "circle", line |-> <<>>, dir |-> NULL, radius |-> radius, centre |-> centre,
     to |-> BadToken]
Spline ==
    [kind |-> "spline", line |-> <<>>, dir |-> NULL, radius |-> <<FALSE, 0>>,
     centre |-> BadToken, to |-> BadToken]

\* the tessellation steps the configurations use
GeometryDetails == {3}

\* boundaries: counter-clockwise and clockwise triangles, a bow-tie, a ring with two
\* crossings, a ring of two distinct points, a pie slice closed by a clockwise and by a
\* counter-clockwise arc, a circle, an arc with no line before it, an unsupported
\* segment, a malformed coordinate and a single point
Boundaries ==
    [triangle |-> <<Line(<<T(0, 0), T(2, 0), T(0, 2)>>)>>,
     clockwise |-> <<Line(<<T(0, 0), T(0, 2), T(2, 0)>>)>>,
     bowtie |-> <<Line(<<T(0, 0), T(2, 2), T(2, 1), T(0, 2)>>)>>,
     kinked |-> <<Line(<<T(0, 0), T(1, 0), T(1, 2), T(0, 2), T(2, 1)>>)>>,
     twopoints |-> <<Line(<<T(0, 0), T(2, 0)>>), Line(<<T(0, 0), T(2, 0)>>)>>,
     slice |-> <<Line(<<T(3, 3), T(3, 6)>>), Arc("cw", <<TRUE, 3>>, T(3, 3), T(6, 3))>>,
     sliceccw |-> <<Line(<<T(3, 3), T(6, 3)>>), Arc("ccw", <<TRUE, 3>>, T(3, 3), T(3, 6))>>,
     circle |-> <<Circle(<<TRUE, 3>>, T(3, 3))>>,
     arcfirst |-> <<Arc("cw", <<TRUE, 3>>, T(3, 3), T(6, 3)), Line(<<T(3, 3)>>)>>,
     spline |-> <<Line(<<T(0, 0), T(2, 0)>>), Spline>>,
     badtoken |-> <<Line(<<T(0, 0), BadToken, T(0, 2)>>)>>,
     point |-> <<Line(<<T(0, 0)>>)>>]

\* "1500 ft" and the like; "1500 m"
Feet(digits) == <<Digits(digits, <<>>), Word(" "), Word("ft")>>
BadCeiling == <<Digits(<<1, 5, 0, 0>>, <<>>), Word(" "), Word("m")>>

GeometrySequence(seq, upper, boundary, class, rules) ==
    [seq |-> seq, upper |-> upper, lower |-> <<Word("SFC")>>, boundary |-> boundary,
     class |-> class, rules |-> rules]

Good(seq) == GeometrySequence(Some(seq), Feet(<<1, 5, 0, 0>>), Boundaries.triangle, NULL, None)

Airspace(name, type, localtype, class, geometry) ==
    [name |-> name, id |-> "a1", type |-> type, localtype |-> localtype, class |-> class,
     rules |-> None, geometry |-> geometry]

\* the airspace definitions the documents are made of: "A" has one sequence, "B" a good
\* first sequence and a second one of each kind, "C" maps by type and localtype (one
\* "C" has base rules and a second sequence with a class and rules of its own), "S"
\* and "N" have one sequence that carries a seq, "S" without an id and "N" with an id
\* no service controls, "M" has the id b2 and two sequences of which the first has no seq
Airspaces ==
    {Airspace("A", "CTA", NULL, "A",
              <<GeometrySequence(None, <<Word("FL"), Digits(<<6, 5>>, <<>>)>>,
                                 Boundaries[b], NULL, None)>>) :
        b \in DOMAIN Boundaries}
    \cup {Airspace("B", "D", NULL, NULL,
                   <<Good(1), GeometrySequence(Some(2), Feet(<<2, 5, 0, 0>>),
                                               Boundaries[b], NULL, None)>>) :
            b \in {"clockwise", "arcfirst", "bowtie", "slice"}}
    \cup {Airspace("B", "D", NULL, NULL, <<Good(1), GeometrySequence(Some(2), BadCeiling,
                                                      Boundaries.triangle, NULL, None)>>),
          Airspace("C", "OTHER", "GLIDER", NULL,
                   <<Good(1), GeometrySequence(Some(2), Feet(<<2, 5, 0, 0>>),
                                               Boundaries.triangle, "A", None)>>),
          [Airspace("C", "OTHER", "GLIDER", NULL,
                    <<Good(1), GeometrySequence(Some(2), Feet(<<2, 5, 0, 0>>),
                                                Boundaries.circle, "D",
                                                Some(<<"NOTAM", "TMZ">>))>>)
              EXCEPT !.rules = Some(<<"SI">>)],
          Airspace("C", "OTHER", NULL, NULL, <<Good(1)>>),
          [Airspace("S", "D", NULL, NULL, <<Good(1)>>) EXCEPT !.id = NULL],
          [Airspace("N", "D", NULL, NULL, <<Good(1)>>) EXCEPT !.id = "c3"],
          [Airspace("M", "D", NULL, NULL,
                    <<GeometrySequence(None, Feet(<<2, 5, 0, 0>>), Boundaries.triangle, NULL, None),
                      Good(2)>>) EXCEPT !.id = "b2"]}

\* the most airspace definitions in one document
MaxAirspaces == 2

\* options.serviceFileBuffer: absent, a file of four services of which the second and
\* the third control airspace a1 and the fourth has no controls, or a file whose one
\* service has no frequency.  The frequencies are 118.0125, 123.4, 135.025 and 128.
ServiceFiles ==
    {None,
     Some(<<[callsign |-> "APPROACH", frequency |-> Some(<<118, <<0, 1, 2, 5>>>>),
             controls |-> {"b2"}],
            [callsign |-> "TOWER", frequency |-> Some(<<123, <<4>>>>), controls |-> {"a1"}],
            [callsign |-> "RADAR", frequency |-> Some(<<135, <<0, 2, 5>>>>),
             controls |-> {"a1", "b2"}],
            [callsign |-> "INFO", frequency |-> Some(<<128, <<>>>>), controls |-> {}]>>),
     Some(<<[callsign |-> "GROUND", frequency |-> None, controls |-> {"a1"}]>>)}

Configs ==
    [validateGeometries : BOOLEAN, fixGeometries : BOOLEAN,
     geometryDetail : GeometryDetails, strictSchemaValidation : BOOLEAN]

(***************************************************************************)
(* The converter.  One AirspaceConverter instance; convert calls follow    *)
(* one another on it.                                                      *)
(*   cfg                  the configuration given to the constructor       *)
(*   identifier, sequenceNumber, boundaryCoordinates                       *)
(*                        the fields _identifier, _sequenceNumber and      *)
(*                        _boundaryCoordinates                             *)
(*   yaixm, services      the parsed document and services of the call;    *)
(*                        the airspace definitions of the document are     *)
(*                        drawn as the loop reaches them: yaixm holds the  *)
(*                        ones reached so far, airspaceCount how many the  *)
(*                        document has                                     *)
(*   ai, si, bi           positions of the loops over yaixm.airspace, over *)
(*                        the airspace's geometry and over the boundary    *)
(*   geometry             the polygon ring of the sequence being processed *)
(*   airspaceFeatures     `features` of createAirspaceFeatures             *)
(*   geojsonFeatures      `geojsonFeatures` of convert                     *)
(*   error, result        what the call threw or returned                  *)
(*   pc                   where the call is                                *)
(*   fnIn, fnOut          argument and result of an operation applied on   *)
(*                        its own (the specifications further down)        *)
(*   calls                the locals of the convert calls that are in      *)
(*                        flight together on the converter                 *)
(*   defaultConfig        the object exported by default-config.js         *)
(*   geojson, written     the _geojson field of the YaixmConverter and the *)
(*                        file toGeojsonFile wrote                         *)
(***************************************************************************)
VARIABLES cfg, pc, yaixm, airspaceCount, services, ai, si, bi, identifier, sequenceNumber,
          boundaryCoordinates, geometry, airspaceFeatures, geojsonFeatures,
          error, result, fnIn, fnOut, calls, defaultConfig, geojson, written

vars == <<cfg, pc, yaixm, airspaceCount, services, ai, si, bi, identifier, sequenceNumber,
          boundaryCoordinates, geometry, airspaceFeatures, geojsonFeatures,
          error, result, fnIn, fnOut, calls, defaultConfig, geojson, written>>

\* what the other specifications keep: the convert calls in flight on the one
\* converter, the object exported by default-config.js, and the _geojson field and
\* the output file of a YaixmConverter
wider == <<calls, defaultConfig, geojson, written>>

NoError == Err("none", ABSENT, None, "")

\* default-config.js as loaded: a key the object does not have is None
DefaultConfigModule ==
    [validateGeometries |-> Some(TRUE), fixGeometries |-> Some(FALSE),
     geometryDetail |-> Some(100), strictSchemaValidation |-> None]

\* field initialisers and the constructor
Init ==
    /\ cfg \in Configs
    /\ pc = "idle"
    /\ yaixm = <<>>
    /\ airspaceCount = 0
    /\ services = <<>>
    /\ ai = 0 /\ si = 0 /\ bi = 0
    /\ identifier = UNDEFINED
    /\ sequenceNumber = None
    /\ boundaryCoordinates = <<>>
    /\ geometry = <<>>
    /\ airspaceFeatures = <<>>
    /\ geojsonFeatures = <<>>
    /\ error = NoError
    /\ result = None
    /\ fnIn = <<>>
    /\ fnOut = <<>>
    /\ calls = <<>>
    /\ defaultConfig = DefaultConfigModule
    /\ geojson = None
    /\ written = None

\* a reset that leaves the accumulated boundary in place
reset_KeepsBoundary ==
    /\ identifier' = UNDEFINED
    /\ sequenceNumber' = None
    /\ UNCHANGED boundaryCoordinates

\* AirspaceConverter.reset
reset ==
    /\ identifier' = UNDEFINED
    /\ sequenceNumber' = None
    /\ boundaryCoordinates' = <<>>

CurrentAirspace == yaixm[ai]
CurrentSequence == yaixm[ai].geometry[si]

\* the throw of an error out of convert: the fields keep what they held
Throw(e) ==
    /\ pc' = "failed"
    /\ error' = e
    /\ result' = None
    /\ geometry' = <<>>
    /\ airspaceFeatures' = <<>>
    /\ geojsonFeatures' = <<>>

\* convert, lines 175-176: the arguments fail their schema
ConvertRejected ==
    /\ pc \in {"idle", "done", "failed"}
    /\ Throw(Err("InvalidArguments", ABSENT, None, "Buffer or ConvertOptions"))
    /\ UNCHANGED <<wider, cfg, yaixm, airspaceCount, services, ai, si, bi, identifier, sequenceNumber,
                   boundaryCoordinates, fnIn, fnOut>>

\* convert, lines 175-204: reset, parse the document and the services
Convert ==
    /\ pc \in {"idle", "done", "failed"}
    /\ \E count \in 0..MaxAirspaces, serviceFile \in ServiceFiles :
          /\ yaixm' = <<>>
          /\ airspaceCount' = count
          /\ IF serviceFile # None /\ LacksFrequency(serviceFile[1])
             THEN /\ services' = <<>>
                  /\ Throw(ServiceFrequencyError)
             ELSE /\ services' = IF serviceFile = None THEN <<>>
                                 ELSE FormatServices(serviceFile[1])
                  /\ geometry' = <<>>
                  /\ airspaceFeatures' = <<>>
                  /\ geojsonFeatures' = <<>>
                  /\ error' = NoError
                  /\ result' = None
                  /\ pc' = "airspaces"
    /\ reset
    /\ ai' = 1 /\ si' = 0 /\ bi' = 0
    /\ UNCHANGED <<wider, cfg, fnIn, fnOut>>

\* createAirspaceFeatures, lines 241-247: entered for the next airspace
CreateAirspaceFeatures ==
    /\ pc = "airspaces"
    /\ ai <= airspaceCount
    /\ \E airspace \in Airspaces :
          /\ yaixm' = Append(yaixm, airspace)
          /\ identifier' = airspace.name
    /\ airspaceFeatures' = <<>>
    /\ si' = 1
    /\ pc' = "sequences"
    /\ UNCHANGED <<wider, cfg, airspaceCount, services, ai, bi, sequenceNumber,
                   boundaryCoordinates, geometry, geojsonFeatures, error, result, fnIn, fnOut>>

\* the taxonomy and the two ceilings of the current sequence, lines 255-265: the first
\* error thrown, or ok
PropertiesOf(ident, seqNo, airspace, sequence) ==
    LET airspaceClass == OrElse(sequence.class, airspace.class)
        airspaceRules == OrElseRules(sequence.rules, airspace.rules)
        mapped == mapClassAndType(ident, airspace.type, airspace.localtype,
                                  airspaceClass, airspaceRules)
        upperCeiling == createCeiling(ident, seqNo, sequence.upper)
        lowerCeiling == createCeiling(ident, seqNo, sequence.lower)
    IN  IF ~mapped.ok THEN mapped
        ELSE IF ~upperCeiling.ok THEN upperCeiling
        ELSE IF ~lowerCeiling.ok THEN lowerCeiling
        ELSE [ok |-> TRUE, mapped |-> mapped, airspaceRules |-> airspaceRules,
              upperCeiling |-> upperCeiling.ceiling, lowerCeiling |-> lowerCeiling.ceiling]

SequenceProperties(ident, seqNo) ==
    PropertiesOf(ident, seqNo, CurrentAirspace, CurrentSequence)

\* createAirspaceFeatures, lines 250-265: the next sequence of the airspace
BeginSequence ==
    /\ pc = "sequences"
    /\ si <= Len(CurrentAirspace.geometry)
    /\ sequenceNumber' = Some(SequenceNumberOf(CurrentSequence.seq))
    /\ LET props == SequenceProperties(identifier, sequenceNumber')
       IN  IF props.ok
           THEN /\ pc' = "boundary"
                /\ bi' = 1
                /\ UNCHANGED <<geometry, airspaceFeatures, geojsonFeatures, error, result>>
           ELSE /\ Throw(props.error)
                /\ UNCHANGED bi
    /\ UNCHANGED <<wider, cfg, yaixm, airspaceCount, services, ai, si, identifier, boundaryCoordinates, fnIn, fnOut>>

\* createPolygonGeometry, lines 559-585: one boundary definition
ResolveSegment ==
    /\ pc = "boundary"
    /\ bi <= Len(CurrentSequence.boundary)
    /\ LET coordinates == ResolveBoundaryDefinition(identifier, sequenceNumber,
                              boundaryCoordinates, CurrentSequence.boundary[bi],
                              cfg.geometryDetail)
       IN  IF coordinates.ok
           THEN /\ boundaryCoordinates' = boundaryCoordinates \o coordinates.coordinates
                /\ bi' = bi + 1
                /\ UNCHANGED <<pc, geometry, airspaceFeatures, geojsonFeatures, error, result>>
           ELSE /\ Throw(coordinates.error)
                /\ UNCHANGED <<bi, boundaryCoordinates>>
    /\ UNCHANGED <<wider, cfg, yaixm, airspaceCount, services, ai, si, identifier, sequenceNumber, fnIn, fnOut>>

\* createPolygonGeometry, lines 587-598: line string, polygon, rewind
CreatePolygonGeometry ==
    /\ pc = "boundary"
    /\ bi > Len(CurrentSequence.boundary)
    /\ LET assembled == AssemblePolygon(boundaryCoordinates)
       IN  IF assembled.ok
           THEN /\ geometry' = assembled.ring
                /\ pc' = "fix"
                /\ UNCHANGED <<airspaceFeatures, geojsonFeatures, error, result>>
           ELSE Throw(assembled.error)
    /\ UNCHANGED <<wider, cfg, yaixm, airspaceCount, services, ai, si, bi, identifier, sequenceNumber,
                   boundaryCoordinates, fnIn, fnOut>>

\* the geometry becomes one of the rings fixGeometry may return, or its error is thrown
FixedGeometry(fixed) ==
    IF fixed.ok
    THEN /\ geometry' \in fixed.rings
         /\ pc' = "validate"
         /\ UNCHANGED <<airspaceFeatures, geojsonFeatures, error, result>>
    ELSE Throw(fixed.error)

\* a step that repairs whatever the configuration says
FixGeometry_Unconditional ==
    /\ pc = "fix"
    /\ FixedGeometry(fixGeometry(identifier, sequenceNumber, geometry))
    /\ UNCHANGED <<wider, cfg, yaixm, airspaceCount, services, ai, si, bi, identifier, sequenceNumber,
                   boundaryCoordinates, fnIn, fnOut>>

\* createAirspaceFeatures, lines 268-270
FixGeometry ==
    /\ pc = "fix"
    /\ IF cfg.fixGeometries
       THEN FixedGeometry(fixGeometry(identifier, sequenceNumber, geometry))
       ELSE /\ pc' = "validate"
            /\ UNCHANGED <<geometry, airspaceFeatures, geojsonFeatures, error, result>>
    /\ UNCHANGED <<wider, cfg, yaixm, airspaceCount, services, ai, si, bi, identifier, sequenceNumber,
                   boundaryCoordinates, fnIn, fnOut>>

\* createAirspaceFeatures, lines 271-273
ValidateGeometry ==
    /\ pc = "validate"
    /\ IF cfg.validateGeometries /\ ~validate(geometry).ok
       THEN Throw(validate(geometry).error)
       ELSE /\ pc' = "emit"
            /\ UNCHANGED <<geometry, airspaceFeatures, geojsonFeatures, error, result>>
    /\ UNCHANGED <<wider, cfg, yaixm, airspaceCount, services, ai, si, bi, identifier, sequenceNumber,
                   boundaryCoordinates, fnIn, fnOut>>

\* the feature of the current sequence, lines 255-303
CurrentFeature ==
    LET props == SequenceProperties(identifier, sequenceNumber)
        groundService == IF CurrentAirspace.id # NULL
                         THEN createGroundServiceProperty(CurrentAirspace.id, services)
                         ELSE None
    IN  BuildFeature(buildAirspaceName(CurrentAirspace.name, CurrentSequence.seq),
                     props.mapped, props.upperCeiling, props.lowerCeiling,
                     props.airspaceRules, groundService, geometry)

\* createAirspaceFeatures, lines 275-307: build and push the feature, reset
EmitFeature ==
    /\ pc = "emit"
    /\ airspaceFeatures' = PushFeature(airspaceFeatures, CurrentFeature)
    /\ reset
    /\ geometry' = <<>>
    /\ si' = si + 1
    /\ pc' = "sequences"
    /\ UNCHANGED <<wider, cfg, yaixm, airspaceCount, services, ai, bi, geojsonFeatures, error, result, fnIn, fnOut>>

\* convert, lines 207-211: createAirspaceFeatures returns, its features are appended
EndAirspace ==
    /\ pc = "sequences"
    /\ si > Len(CurrentAirspace.geometry)
    /\ geojsonFeatures' = geojsonFeatures \o airspaceFeatures
    /\ airspaceFeatures' = <<>>
    /\ ai' = ai + 1
    /\ pc' = "airspaces"
    /\ UNCHANGED <<wider, cfg, yaixm, airspaceCount, services, si, bi, identifier, sequenceNumber,
                   boundaryCoordinates, geometry, error, result, fnIn, fnOut>>

\* convert, lines 214-226: the collection is checked against the schema and returned
Return ==
    /\ pc = "airspaces"
    /\ ai > airspaceCount
    /\ \E valid \in BOOLEAN :
          IF ~valid /\ cfg.strictSchemaValidation
          THEN Throw(Err("SchemaInvalid", ABSENT, None,
                         "GeoJSON does not adhere to underlying schema"))
          ELSE /\ result' = Some(geojsonFeatures)
               /\ pc' = "done"
               /\ UNCHANGED <<geometry, airspaceFeatures, geojsonFeatures, error>>
    /\ UNCHANGED <<wider, cfg, yaixm, airspaceCount, services, ai, si, bi, identifier, sequenceNumber,
                   boundaryCoordinates, fnIn, fnOut>>

Next ==
    \/ ConvertRejected
    \/ Convert
    \/ CreateAirspaceFeatures
    \/ BeginSequence
    \/ ResolveSegment
    \/ CreatePolygonGeometry
    \/ FixGeometry
    \/ ValidateGeometry
    \/ EmitFeature
    \/ EndAirspace
    \/ Return

Spec == Init /\ [][Next]_vars

(***************************************************************************)
(* Operations applied on their own.  The converter is left as constructed  *)
(* with the default configuration; fnIn is drawn at the start and the      *)
(* operation puts its outcome in fnOut.                                    *)
(***************************************************************************)
DEFAULT_CONFIG ==
    [validateGeometries |-> TRUE, fixGeometries |-> FALSE, geometryDetail |-> 100,
     strictSchemaValidation |-> FALSE]

Constructed ==
    /\ cfg = DEFAULT_CONFIG
    /\ pc = "input"
    /\ yaixm = <<>>
    /\ airspaceCount = 0
    /\ services = <<>>
    /\ ai = 0 /\ si = 0 /\ bi = 0
    /\ identifier = UNDEFINED
    /\ sequenceNumber = None
    /\ boundaryCoordinates = <<>>
    /\ geometry = <<>>
    /\ airspaceFeatures = <<>>
    /\ geojsonFeatures = <<>>
    /\ error = NoError
    /\ result = None
    /\ fnOut = <<>>
    /\ calls = <<>>
    /\ defaultConfig = DefaultConfigModule
    /\ geojson = None
    /\ written = None

Apply(outcome) ==
    /\ pc = "input"
    /\ pc' = "applied"
    /\ fnOut' = outcome
    /\ UNCHANGED <<wider, cfg, yaixm, airspaceCount, services, ai, si, bi, identifier, sequenceNumber,
                   boundaryCoordinates, geometry, airspaceFeatures, geojsonFeatures,
                   error, result, fnIn>>

\* the taxonomy mapper over raw values in and outside the allowed sets
TaxTypes == ALLOWED_TYPES \cup {"TMZ", "XXX", NULL}
TaxLocalTypes == ALLOWED_LOCALTYPES \cup {"XXX", NULL}
TaxClasses == ALLOWED_CLASSES \cup {"X", NULL}
TaxRules ==
    {None, Some(<<>>), Some(<<"NOTAM">>), Some(<<"TMZ">>), Some(<<"TRA">>),
     Some(<<"NOTAM", "RMZ", "TRA">>)}

InitTax ==
    /\ Constructed
    /\ fnIn \in [type : TaxTypes, localType : TaxLocalTypes, airspaceClass : TaxClasses,
                 airspaceRules : TaxRules]

ApplyMapClassAndType ==
    Apply(mapClassAndType("A", fnIn.type, fnIn.localType, fnIn.airspaceClass,
                          fnIn.airspaceRules))

NextTax == ApplyMapClassAndType

SpecTax == InitTax /\ [][NextTax]_vars

\* an arc around (3, 3): the previous point and `to` among the eight lattice
\* neighbours of the centre, whose bearings are the multiples of 45 degrees
ArcCentre == T(3, 3)
ArcNeighbours == {<<x, y>> \in (2..4) \X (2..4) : <<x, y>> # <<3, 3>>}
ArcDetails == {1, 3}

InitArc ==
    /\ Constructed
    /\ fnIn \in [boundaryCoordinates : {<<>>} \cup {<<Pt(n[1], n[2])>> : n \in ArcNeighbours},
                 dir : {"cw", "ccw", "left"},
                 radius : {<<TRUE, 3>>, <<FALSE, 0>>},
                 centre : {ArcCentre, BadToken},
                 to : {T(n[1], n[2]) : n \in ArcNeighbours} \cup {BadToken},
                 geometryDetail : ArcDetails]

ApplyCreateCoordinatesFromArc ==
    Apply(createCoordinatesFromArc("A", Some(1), fnIn.boundaryCoordinates,
                                   Arc(fnIn.dir, fnIn.radius, fnIn.centre, fnIn.to),
                                   fnIn.geometryDetail))

NextArc == ApplyCreateCoordinatesFromArc

SpecArc == InitArc /\ [][NextArc]_vars

\* the polygon assembler over ring buffers that start at the origin of a small grid
GridMax == 2
BufferLengths == 0..5
GridPoints == {Pt(x, y) : x \in 0..GridMax, y \in 0..GridMax}

InitPoly ==
    /\ Constructed
    /\ fnIn \in UNION {{b \in [1..n -> GridPoints] : n > 0 => b[1] = Pt(0, 0)} :
                          n \in BufferLengths}

ApplyAssemblePolygon == Apply(AssemblePolygon(fnIn))

NextPoly == ApplyAssemblePolygon

SpecPoly == InitPoly /\ [][NextPoly]_vars

\* the vertical limit parser over the strings of at most MaxLexemes lexemes
MaxLexemes == 4
CeilingLexemes ==
    {Digits(<<1, 5, 0, 0>>, <<>>), Digits(<<1, 1, 5>>, <<>>), Digits(<<5>>, <<>>),
     Digits(<<1, 5, 0, 0>>, <<5>>),
     Word(" "), Word("ft"), Word("FT"), Word("SFC"), Word("FL"), Word("m")}

InitCeil ==
    /\ Constructed
    /\ fnIn \in {def \in UNION {[1..n -> CeilingLexemes] : n \in 0..MaxLexemes} :
                    \A i \in 1..(Len(def) - 1) :
                        def[i].t \in {"num", " "} => def[i + 1].t # def[i].t}

ApplyCreateCeiling == Apply(createCeiling("A", Some(1), fnIn))

NextCeil == ApplyCreateCeiling

SpecCeil == InitCeil /\ [][NextCeil]_vars

\* the repairer and its stages over the ring buffers of at most MaxRingBuffer points
\* of the grid: removeDuplicates on the buffer, createFixedPolygon and fixGeometry on
\* the polygon assembled from it
MaxRingBuffer == 4

\* parseInt(calcBearing(p, q)): the bearing in (-180, 180] cut to its whole degrees
TruncatedBearing(p, q) ==
    IF BearingQ(p, q)[1] <= 180 * BearingQ(p, q)[2]
    THEN BearingQ(p, q)[1] \div BearingQ(p, q)[2]
    ELSE 0 - ((360 * BearingQ(p, q)[2] - BearingQ(p, q)[1]) \div BearingQ(p, q)[2])

\* "always use 360 instead of 0"
NextBearing(p, q) == IF TruncatedBearing(p, q) = 0 THEN 360 ELSE TruncatedBearing(p, q)

\* nextBearing > 360 && nextBearing < 180 ? nextBearing + 180 : nextBearing - 180
OppBearing(nextBearing) ==
    IF nextBearing > 360 /\ nextBearing < 180 THEN nextBearing + 180 ELSE nextBearing - 180

\* the forEach of removeOverlapPoints from the point at index on
RECURSIVE RemoveOverlapFrom(_, _, _, _)
RemoveOverlapFrom(coordinates, index, fixedPoints, lastBearing) ==
    IF index > Len(coordinates) THEN fixedPoints
    ELSE IF index = Len(coordinates) THEN Append(fixedPoints, coordinates[index])
    ELSE IF \/ lastBearing = None
            \/ OppBearing(NextBearing(coordinates[index], coordinates[index + 1]))
                   # lastBearing[1]
    THEN RemoveOverlapFrom(coordinates, index + 1, Append(fixedPoints, coordinates[index]),
                           Some(NextBearing(coordinates[index], coordinates[index + 1])))
    ELSE RemoveOverlapFrom(coordinates, index + 1, fixedPoints, lastBearing)

\* AirspaceConverter.removeOverlapPoints of the earlier versions
removeOverlapPoints(coordinates) == RemoveOverlapFrom(coordinates, 1, <<>>, None)

InitFix ==
    /\ Constructed
    /\ fnIn \in UNION {{b \in [1..n -> GridPoints] : n > 0 => b[1] = Pt(0, 0)} :
                          n \in 0..MaxRingBuffer}

ApplyRemoveDuplicates ==
    Apply([op |-> "removeDuplicates", out |-> removeDuplicates(fnIn)])

\* makeValid hands createFixedPolygon the coordinates of a polygon that is not valid
ApplyCreateFixedPolygon ==
    /\ AssemblePolygon(fnIn).ok
    /\ ~isValidPolygon(AssemblePolygon(fnIn).ring)
    /\ Apply([op |-> "createFixedPolygon",
              out |-> createFixedPolygon(AssemblePolygon(fnIn).ring)])

ApplyFixGeometry ==
    /\ AssemblePolygon(fnIn).ok
    /\ Apply([op |-> "fixGeometry",
              out |-> fixGeometry("A", Some(1), AssemblePolygon(fnIn).ring)])

ApplyRemoveOverlapPoints ==
    Apply([op |-> "removeOverlapPoints", out |-> removeOverlapPoints(fnIn)])

NextFix ==
    \/ ApplyRemoveDuplicates
    \/ ApplyRemoveOverlapPoints
    \/ ApplyCreateFixedPolygon
    \/ ApplyFixGeometry

SpecFix == InitFix /\ [][NextFix]_vars

(***************************************************************************)
(* Two convert calls in flight on one converter.  convert and              *)
(* createAirspaceFeatures are async: a call runs until it reaches an await *)
(* (line 191 for the services, line 292 for the ground service of a        *)
(* sequence, line 207 for the features of an airspace), where the other    *)
(* call may run.  Both calls are made with the service file on a document  *)
(* of one airspace that has an id, so each of these awaits is reached.     *)
(* The fields _identifier, _sequenceNumber and _boundaryCoordinates are    *)
(* the converter's; calls[c] holds the locals of call c:                   *)
(*   pc         "services" (line 191), "service" (line 292), "airspace"    *)
(*              (line 207), "done" or "failed"                             *)
(*   doc, si    the document and the position of the loop over geometry    *)
(*   pending    the feature under construction while the call waits for    *)
(*              the ground service                                        *)
(*   features, collected   `features` and `geojsonFeatures`                *)
(***************************************************************************)
ConcAirspaces ==
    {a \in Airspaces :
        /\ a.id # NULL
        /\ \/ a.name \in {"M", "N"}
           \/ a.name = "A" /\ a.geometry[1].boundary \in {Boundaries.slice, Boundaries.circle}}

ConcServices == FormatServices((CHOOSE f \in ServiceFiles : f # None /\ Len(f[1]) > 1)[1])

\* createPolygonGeometry, lines 559-585: the boundary definitions from `from` on are
\* resolved and pushed onto the buffer
RECURSIVE ResolveBoundary(_, _, _, _, _, _)
PushResolved(ident, seqNo, buffer, boundary, from, geometryDetail, resolved) ==
    IF resolved.ok
    THEN ResolveBoundary(ident, seqNo, buffer \o resolved.coordinates, boundary, from + 1,
                         geometryDetail)
    ELSE [ok |-> FALSE, error |-> resolved.error, coordinates |-> buffer]

ResolveBoundary(ident, seqNo, buffer, boundary, from, geometryDetail) ==
    IF from > Len(boundary) THEN [ok |-> TRUE, error |-> NoError, coordinates |-> buffer]
    ELSE PushResolved(ident, seqNo, buffer, boundary, from, geometryDetail,
                      ResolveBoundaryDefinition(ident, seqNo, buffer, boundary[from],
                                                geometryDetail))

\* lines 271-273 for the rings fixGeometry may have returned
ValidatedRings(config, fixed) ==
    IF ~fixed.ok THEN [ok |-> FALSE, error |-> fixed.error, rings |-> {}]
    ELSE IF config.validateGeometries /\ \E r \in fixed.rings : ~validate(r).ok
    THEN [ok |-> FALSE,
          error |-> validate(CHOOSE r \in fixed.rings : ~validate(r).ok).error,
          rings |-> {}]
    ELSE [ok |-> TRUE, error |-> NoError, rings |-> fixed.rings]

\* lines 266-273 for the assembled polygon: the rings that pass, or the error thrown
CheckedRings(config, ident, seqNo, assembled) ==
    IF ~assembled.ok THEN [ok |-> FALSE, error |-> assembled.error, rings |-> {}]
    ELSE ValidatedRings(config, IF config.fixGeometries
                                THEN fixGeometry(ident, seqNo, assembled.ring)
                                ELSE [ok |-> TRUE, rings |-> {assembled.ring}])

\* the features that may be under construction at line 289, before the ground service
FeaturesOf(airspace, sequence, props, buffer, checked) ==
    [ok |-> checked.ok, error |-> checked.error, buffer |-> buffer,
     features |-> {BuildFeature(buildAirspaceName(airspace.name, sequence.seq), props.mapped,
                                props.upperCeiling, props.lowerCeiling, props.airspaceRules,
                                None, r) : r \in checked.rings}]

OutcomeOf(config, ident, seqNo, airspace, sequence, buffer, props, resolved) ==
    IF ~props.ok THEN [ok |-> FALSE, error |-> props.error, buffer |-> buffer, features |-> {}]
    ELSE IF ~resolved.ok
    THEN [ok |-> FALSE, error |-> resolved.error, buffer |-> resolved.coordinates,
          features |-> {}]
    ELSE FeaturesOf(airspace, sequence, props, resolved.coordinates,
                    CheckedRings(config, ident, seqNo, AssemblePolygon(resolved.coordinates)))

\* lines 250-289 for one sequence, run on the buffer the converter holds: the buffer
\* left behind, and the features that may be under construction or the error thrown
SequenceOutcome(config, ident, seqNo, airspace, sequence, buffer) ==
    OutcomeOf(config, ident, seqNo, airspace, sequence, buffer,
              PropertiesOf(ident, seqNo, airspace, sequence),
              ResolveBoundary(ident, seqNo, buffer, sequence.boundary, 1,
                              config.geometryDetail))

\* the call waits at line 292 with its feature under construction, or has thrown
SuspendOrThrow(c, call, outcome) ==
    /\ boundaryCoordinates' = outcome.buffer
    /\ IF outcome.ok
       THEN \E feature \in outcome.features :
               calls' = [calls EXCEPT ![c] = [call EXCEPT !.pc = "service",
                                                         !.pending = Some(feature)]]
       ELSE calls' = [calls EXCEPT ![c] = [call EXCEPT !.pc = "failed",
                                                      !.error = outcome.error]]

\* the loop body of createAirspaceFeatures for sequence call.si, up to the await of
\* line 292 or the throw
RunSequence(c, call, ident, buffer) ==
    /\ identifier' = ident
    /\ sequenceNumber' = Some(SequenceNumberOf(call.doc[1].geometry[call.si].seq))
    /\ SuspendOrThrow(c, call,
                      SequenceOutcome(cfg, ident,
                                      Some(SequenceNumberOf(call.doc[1].geometry[call.si].seq)),
                                      call.doc[1], call.doc[1].geometry[call.si], buffer))

\* convert, lines 175-191: a call is started while another may be in flight
StartCall ==
    /\ Len(calls) <= 1
    /\ \E airspace \in ConcAirspaces :
          calls' = Append(calls, [pc |-> "services", doc |-> <<airspace>>, si |-> 0,
                                  pending |-> None, features |-> <<>>, collected |-> <<>>,
                                  error |-> NoError])
    /\ reset
    /\ UNCHANGED <<cfg, pc, yaixm, airspaceCount, services, ai, si, bi, geometry,
                   airspaceFeatures, geojsonFeatures, error, result, fnIn, fnOut,
                   defaultConfig, geojson, written>>

\* convert resumes after line 191 and enters createAirspaceFeatures, lines 241-292
EnterAirspace(c) ==
    /\ calls[c].pc = "services"
    /\ calls[c].doc[1].id # NULL
    /\ RunSequence(c, [calls[c] EXCEPT !.si = 1], calls[c].doc[1].name, boundaryCoordinates)
    /\ UNCHANGED <<cfg, pc, yaixm, airspaceCount, services, ai, si, bi, geometry,
                   airspaceFeatures, geojsonFeatures, error, result, fnIn, fnOut,
                   defaultConfig, geojson, written>>

\* lines 293-305: the feature under construction gets its ground service and is pushed
Pushed(call) ==
    [call EXCEPT !.features =
                     PushFeature(@, [call.pending[1] EXCEPT !.groundService =
                                         createGroundServiceProperty(call.doc[1].id,
                                                                     ConcServices)]),
                 !.pending = None]

\* createAirspaceFeatures resumes after line 292: the feature is pushed, the fields
\* are reset, and the loop runs the next sequence or returns (lines 293-310)
ResumeSequence(c) ==
    /\ calls[c].pc = "service"
    /\ IF calls[c].si < Len(calls[c].doc[1].geometry)
       THEN RunSequence(c, [Pushed(calls[c]) EXCEPT !.si = @ + 1], UNDEFINED, <<>>)
       ELSE /\ reset
            /\ calls' = [calls EXCEPT ![c] = [Pushed(calls[c]) EXCEPT !.pc = "airspace"]]
    /\ UNCHANGED <<cfg, pc, yaixm, airspaceCount, services, ai, si, bi, geometry,
                   airspaceFeatures, geojsonFeatures, error, result, fnIn, fnOut,
                   defaultConfig, geojson, written>>

\* convert resumes after line 207 with the features of the airspace and returns the
\* collection, lines 211-226
ReturnCall(c) ==
    /\ calls[c].pc = "airspace"
    /\ \E valid \in BOOLEAN :
          calls' = [calls EXCEPT ![c] =
                       IF ~valid /\ cfg.strictSchemaValidation
                       THEN [@ EXCEPT !.pc = "failed",
                                      !.error = Err("SchemaInvalid", ABSENT, None,
                                                    "GeoJSON does not adhere to underlying schema")]
                       ELSE [@ EXCEPT !.pc = "done", !.collected = @ \o calls[c].features]]
    /\ UNCHANGED <<cfg, pc, yaixm, airspaceCount, services, ai, si, bi, identifier,
                   sequenceNumber, boundaryCoordinates, geometry,
                   airspaceFeatures, geojsonFeatures, error, result, fnIn, fnOut,
                   defaultConfig, geojson, written>>

NextConc ==
    \/ StartCall
    \/ \E c \in DOMAIN calls : EnterAirspace(c)
    \/ \E c \in DOMAIN calls : ResumeSequence(c)
    \/ \E c \in DOMAIN calls : ReturnCall(c)

SpecConc == Init /\ [][NextConc]_vars

(***************************************************************************)
(* The constructors of yaixm-converter.js and of the AirspaceConverter of  *)
(* the same sources.  The configuration given to a constructor is a record *)
(* whose keys are None when the caller left them out; fnIn is the          *)
(* configuration of the last construction and fnOut its outcome, with the  *)
(* configuration the new converter reads.                                  *)
(***************************************************************************)
ConstructorConfigs ==
    [validateGeometries : {None, Some(TRUE), Some(FALSE)},
     fixGeometries : {None, Some(TRUE), Some(FALSE)},
     geometryDetail : {None, Some(3), Some(100)},
     strictSchemaValidation : {None, Some(TRUE), Some(FALSE)}]

\* Object.assign(target, source): the keys of source are written onto target
ObjectAssign(target, source) ==
    [key \in DOMAIN target |-> IF source[key] # None THEN source[key] ELSE target[key]]

\* the checks of the constructor: the first key that is missing, or NULL
MissingKey(config, keys) ==
    IF \E i \in 1..Len(keys) : config[keys[i]] = None
    THEN keys[CHOOSE i \in 1..Len(keys) :
                  /\ config[keys[i]] = None
                  /\ \A j \in 1..(i - 1) : config[keys[j]] # None]
    ELSE NULL

\* this.config = Object.assign(DEFAULT_CONFIG, config), then the checks
Construct(config, keys) ==
    /\ defaultConfig' = ObjectAssign(defaultConfig, config)
    /\ fnIn' = config
    /\ fnOut' = [ok |-> MissingKey(defaultConfig', keys) = NULL,
                 missing |-> MissingKey(defaultConfig', keys),
                 config |-> defaultConfig']
    /\ pc' = "constructed"
    /\ UNCHANGED <<cfg, yaixm, airspaceCount, services, ai, si, bi, identifier, sequenceNumber,
                   boundaryCoordinates, geometry, airspaceFeatures, geojsonFeatures,
                   error, result, calls, geojson, written>>

\* new YaixmConverter(config), yaixm-converter.js lines 19-41
NewYaixmConverter ==
    \E config \in ConstructorConfigs :
        Construct(config, <<"validateGeometries", "fixGeometries", "geometryDetail",
                           "strictSchemaValidation">>)

\* new AirspaceConverter(config) of the same sources
NewAirspaceConverter ==
    \E config \in ConstructorConfigs :
        Construct(config, <<"validateGeometries", "fixGeometries", "geometryDetail">>)

InitConfig == Constructed /\ fnIn = <<>>

NextConfig == NewYaixmConverter \/ NewAirspaceConverter

SpecConfig == InitConfig /\ [][NextConfig]_vars

(***************************************************************************)
(* YaixmConverter, the front of the converter.  _geojson is `geojson`;     *)
(* `error` is what the last convertFromBuffer or convertFromFile call      *)
(* threw (NoError when it returned), `result` what the last toGeojson or   *)
(* toGeojsonFile call returned or threw, `written` the content of the      *)
(* output file, and pc the last call made.  The conversion itself is the   *)
(* converter's: here it returns one of a few feature collections, named by *)
(* their features, or throws.                                              *)
(***************************************************************************)
ConvertOutcomes ==
    {[ok |-> TRUE, error |-> NoError, features |-> <<>>],
     [ok |-> TRUE, error |-> NoError, features |-> <<"A">>],
     [ok |-> TRUE, error |-> NoError, features |-> <<"B 1", "B 2">>],
     [ok |-> FALSE, error |-> Err("InvalidGeometry", "A", Some(0), "Geometry is invalid"),
      features |-> <<>>]}

\* what a convertFromBuffer or convertFromFile call leaves behind when it throws e
\* after its reset
ThrownAfterReset(call, e) ==
    /\ pc' = call
    /\ error' = e
    /\ geojson' = None

\* lines 123-126: reset, getConverter, convert
ConvertWith(call, type, outcome) ==
    IF type # "airspace"
    THEN ThrownAfterReset(call, Err("UnknownType", ABSENT, None, "Unknown type"))
    ELSE IF ~outcome.ok THEN ThrownAfterReset(call, outcome.error)
    ELSE /\ pc' = call
         /\ error' = NoError
         /\ geojson' = Some(outcome.features)

\* the variables no call of the YaixmConverter touches
YaixmFrame ==
    UNCHANGED <<cfg, yaixm, airspaceCount, services, ai, si, bi, identifier, sequenceNumber,
                boundaryCoordinates, geometry, airspaceFeatures, geojsonFeatures,
                fnIn, fnOut, calls, defaultConfig>>

\* convertFromBuffer, lines 117-118: the buffer or the config fails its schema
ConvertFromBufferRejected ==
    /\ pc' = "convertFromBuffer"
    /\ error' = Err("InvalidArguments", ABSENT, None, "buffer or ConvertFromBufferConfig")
    /\ UNCHANGED <<geojson, result, written>>
    /\ YaixmFrame

\* convertFromBuffer, lines 120-126
ConvertFromBuffer ==
    /\ \E type \in {"airspace", "navaid"}, outcome \in ConvertOutcomes :
          ConvertWith("convertFromBuffer", type, outcome)
    /\ UNCHANGED <<result, written>>
    /\ YaixmFrame

\* convertFromFile, line 89: the config fails its schema
ConvertFromFileRejected ==
    /\ pc' = "convertFromFile"
    /\ error' = Err("InvalidArguments", ABSENT, None, "ConvertFromFileConfig")
    /\ UNCHANGED <<geojson, result, written>>
    /\ YaixmFrame

\* convertFromFile, lines 91-113: reset, the files are looked up and read, and the
\* buffer is handed to convertFromBuffer, whose checks it passes
ConvertFromFile ==
    /\ \E existsAirspaceFile \in BOOLEAN, existsServiceFile \in BOOLEAN,
          type \in {"airspace", "navaid"}, outcome \in ConvertOutcomes :
          IF ~existsAirspaceFile \/ ~existsServiceFile
          THEN ThrownAfterReset("convertFromFile",
                                Err("FileMissing", ABSENT, None, "File does not exist"))
          ELSE ConvertWith("convertFromFile", type, outcome)
    /\ UNCHANGED <<result, written>>
    /\ YaixmFrame

\* toGeojson, lines 129-131
ToGeojson ==
    /\ pc' = "toGeojson"
    /\ result' = [thrown |-> "", value |-> geojson]
    /\ UNCHANGED <<geojson, error, written>>
    /\ YaixmFrame

\* toGeojsonFile, lines 137-151, for an output path that is a string
ToGeojsonFile ==
    /\ pc' = "toGeojsonFile"
    /\ \E writable \in BOOLEAN :
          IF geojson = None
          THEN /\ result' = [thrown |-> "No GeoJSON data to write to file", value |-> None]
               /\ UNCHANGED written
          ELSE IF ~writable
          THEN /\ result' = [thrown |-> "Error writing file", value |-> None]
               /\ UNCHANGED written
          ELSE /\ result' = [thrown |-> "", value |-> None]
               /\ written' = geojson
    /\ UNCHANGED <<geojson, error>>
    /\ YaixmFrame

NextYaixm ==
    \/ ConvertFromBufferRejected
    \/ ConvertFromBuffer
    \/ ConvertFromFileRejected
    \/ ConvertFromFile
    \/ ToGeojson
    \/ ToGeojsonFile

SpecYaixm == Init /\ [][NextYaixm]_vars

(***************************************************************************)
(* FixFormat, the OpenAIR formatter of the same sources.  The tokenizer    *)
(* makes one token per line and ends the list with an EOF token; a token   *)
(* is [type, line], the line standing for the trimmed text of the line     *)
(* (lines of one type with different numbers are different texts, a blank  *)
(* line is BlankLine).  A fixed file is the list of its lines, each given  *)
(* as the token it would make.  fnIn is [tokens, extendFormat,             *)
(* fixTokenOrder], fnOut the fixed file or the error thrown.               *)
(***************************************************************************)
Token(type, line) == [type |-> type, line |-> line]
BlankLine == Token("BLANK", 0)
EofToken == Token("EOF", 0)

\* the static orderWeight of the token classes
orderWeight(type) ==
    CASE type = "AC" -> 0
      [] type = "AY" -> 1
      [] type = "AN" -> 2
      [] type = "AI" -> 3
      [] type = "AF" -> 4
      [] type = "AG" -> 5
      [] type = "AH" -> 6
      [] type = "AL" -> 7
      [] OTHER -> 0

\* FixFormat.getNextBlockToken: the index of the next token that is not a skipped,
\* blank or comment token (0 when there is none)
RECURSIVE getNextBlockToken(_, _)
getNextBlockToken(tokens, idx) ==
    IF idx + 1 > Len(tokens) THEN 0
    ELSE IF tokens[idx + 1].type \notin {"BLANK", "COMMENT", "SKIPPED"} THEN idx + 1
    ELSE getNextBlockToken(tokens, idx + 1)

\* FixFormat.isBlockToken
isBlockToken(tokens, idx) ==
    tokens[getNextBlockToken(tokens, idx)].type \notin {"AC", "EOF"}

\* FixFormat.isGeometryToken
isGeometryToken(token) == token.type \in {"DA", "DC", "DP", "DY", "VD", "VW", "VX"}

\* metaTokens.sort by order weight; the sort is stable
RECURSIVE SortByWeight(_, _)
SortByWeight(tokens, weight) ==
    IF weight > 7 THEN <<>>
    ELSE SelectSeq(tokens, LAMBDA t : orderWeight(t.type) = weight)
             \o SortByWeight(tokens, weight + 1)

\* the index of the first token of the block that is not blank and is a geometry
\* token, Len + 1 when there is none
FirstGeometryToken(tokens) ==
    IF \E i \in 1..Len(tokens) : isGeometryToken(tokens[i])
    THEN CHOOSE i \in 1..Len(tokens) :
            /\ isGeometryToken(tokens[i])
            /\ \A j \in 1..(i - 1) : ~isGeometryToken(tokens[j])
    ELSE Len(tokens) + 1

\* lines 2432-2438: the first DP of the block is pushed again when the last token of
\* the block is a later DP with another line
ClosingDp(blockTokens) ==
    LET dps == SelectSeq(blockTokens, LAMBDA t : t.type = "DP")
        last == blockTokens[Len(blockTokens)]
    IN  IF /\ Len(dps) >= 2
           /\ last.type = "DP"
           /\ dps[1].line # last.line
        THEN <<dps[1]>>
        ELSE <<>>

\* lines 2453-2462: the lines of the fixed tokens, with an AI line before an AN line
\* when the format is extended and the block has no AI token
RECURSIVE BlockLines(_, _, _)
BlockLines(fixedTokens, injectAi, i) ==
    IF i > Len(fixedTokens) THEN <<>>
    ELSE (IF injectAi /\ fixedTokens[i].type = "AN" THEN <<Token("AI", 0)>> ELSE <<>>)
             \o <<fixedTokens[i]>> \o BlockLines(fixedTokens, injectAi, i + 1)

\* a fixBlock that leaves the blank lines of the block in place
fixBlock_KeepsBlanks(blockTokens, extendFormat) ==
    LET first == FirstGeometryToken(blockTokens)
        metaTokens == SortByWeight(SubSeq(blockTokens, 1, first - 1), 0)
        geomTokens == SubSeq(blockTokens, first, Len(blockTokens)) \o ClosingDp(blockTokens)
    IN  BlockLines(metaTokens \o geomTokens,
                   extendFormat /\ \A i \in 1..Len(metaTokens) : metaTokens[i].type # "AI", 1)

\* FixFormat.fixBlock
fixBlock(blockTokens, extendFormat) ==
    LET tokens == SelectSeq(blockTokens, LAMBDA t : t.type # "BLANK")
        first == FirstGeometryToken(tokens)
        metaTokens == SortByWeight(SubSeq(tokens, 1, first - 1), 0)
        geomTokens == SubSeq(tokens, first, Len(tokens)) \o ClosingDp(blockTokens)
    IN  BlockLines(metaTokens \o geomTokens,
                   extendFormat /\ \A i \in 1..Len(metaTokens) : metaTokens[i].type # "AI", 1)

\* the loop of FixFormat.fixFormat from token idx on, lines 2295-2354
RECURSIVE FixFrom(_, _, _, _, _, _)
FixFrom(tokens, idx, formatted, blockTokens, readBlock, config) ==
    IF idx > Len(tokens) \/ tokens[idx].type = "EOF" THEN [ok |-> TRUE, formatted |-> formatted]
    ELSE IF tokens[idx].type = "BLANK" /\ tokens[idx + 1].type = "BLANK"
    THEN FixFrom(tokens, idx + 1, formatted, blockTokens, readBlock, config)
    ELSE IF readBlock
    THEN IF isBlockToken(tokens, idx)
         THEN IF config.fixTokenOrder /\ tokens[idx].type = "COMMENT"
              THEN FixFrom(tokens, idx + 1, formatted, blockTokens, readBlock, config)
              ELSE FixFrom(tokens, idx + 1, formatted, Append(blockTokens, tokens[idx]),
                           readBlock, config)
         ELSE FixFrom(tokens, idx + 1,
                      formatted \o fixBlock(Append(blockTokens, tokens[idx]),
                                            config.extendFormat)
                                \o (IF tokens[idx + 1].type # "BLANK" THEN <<BlankLine>>
                                    ELSE <<>>),
                      <<>>, FALSE, config)
    ELSE IF tokens[idx].type \in {"BLANK", "COMMENT", "SKIPPED"}
    THEN FixFrom(tokens, idx + 1, Append(formatted, tokens[idx]), blockTokens, readBlock,
                 config)
    ELSE IF tokens[idx].type = "AC"
    THEN FixFrom(tokens, idx + 1, formatted, Append(blockTokens, tokens[idx]), TRUE, config)
    ELSE [ok |-> FALSE, formatted |-> <<>>]

\* FixFormat.fixFormat on the tokens of the file
fixFormat(tokens, config) == FixFrom(tokens, 1, <<>>, <<>>, FALSE, config)

\* the lines of the files: a blank line, a comment, and lines AC, AN, AL, DB and two
\* different DP lines
MaxFileLines == 5
FileLines ==
    {BlankLine, Token("COMMENT", 1), Token("AC", 1), Token("AN", 1), Token("AL", 1),
     Token("DP", 1), Token("DP", 2), Token("DB", 1)}

\* Tokenizer.tokenize: the tokens of the lines, then the EOF token
tokenize(lines) == Append(lines, EofToken)

InitFormat ==
    /\ Constructed
    /\ fnIn \in [tokens : {tokenize(lines) :
                              lines \in UNION {[1..n -> FileLines] : n \in 0..MaxFileLines}},
                  extendFormat : BOOLEAN, fixTokenOrder : BOOLEAN]

ApplyFixFormat == Apply(fixFormat(fnIn.tokens, fnIn))

NextFormat == ApplyFixFormat

SpecFormat == InitFormat /\ [][NextFormat]_vars

(***************************************************************************)
(* Properties.                                                             *)
(***************************************************************************)
\* the geometry sequences of the airspaces a[from..], in document order, each with
\* the name of its airspace
RECURSIVE InputOrder(_, _)
InputOrder(airspaces, from) ==
    IF from > Len(airspaces) THEN <<>>
    ELSE [k \in 1..Len(airspaces[from].geometry) |->
             [name |-> airspaces[from].name, sequence |-> airspaces[from].geometry[k]]]
         \o InputOrder(airspaces, from + 1)

\* what a sequence of the document shows in its feature
ShownBy(feature, input) ==
    /\ feature.name = buildAirspaceName(input.name, input.sequence.seq)
    /\ feature.upperCeiling.value.num =
          DigitsValue(SelectSeq(input.sequence.upper, LAMBDA k : k.t = "num")[1].whole)

\* C1: a successful convert returns exactly one feature per geometry sequence, and
\* the features are in input order: the airspaces in document order and, within an
\* airspace, its sequences in their order.
C1_OneFeaturePerSequenceInInputOrder ==
    pc = "done" =>
        LET expected == InputOrder(yaixm, 1)
            returned == result[1]
        IN  /\ Len(yaixm) = airspaceCount
            /\ Len(returned) = Len(expected)
            /\ \A k \in 1..Len(returned) : ShownBy(returned[k], expected[k])

\* a successful convert of two airspaces, the first with two sequences, whose names
\* all differ
C1_Witness ==
    /\ pc = "done"
    /\ airspaceCount = 2
    /\ Len(yaixm[1].geometry) = 2
    /\ yaixm[1].name # yaixm[2].name
    /\ Len(result[1]) >= 3

InSequence == pc \in {"boundary", "fix", "validate", "emit"}

\* an error thrown while a geometry sequence was being processed
SequenceError ==
    /\ pc = "failed"
    /\ error.kind \notin {"InvalidArguments", "SchemaInvalid"}
    /\ error # ServiceFrequencyError

NamesAirspaceAndSequence(e) ==
    /\ e.airspace = CurrentAirspace.name
    /\ e.seq = Some(SequenceNumberOf(CurrentSequence.seq))

\* C2: every fatal error raised while a geometry sequence is processed carries the
\* name of the enclosing airspace and the sequence number of that sequence, for the
\* first and for every later sequence of an airspace: while a sequence is processed
\* the identifier used in error messages is the airspace's name.
C2_ErrorsNameAirspaceAndSequence ==
    /\ InSequence => identifier = CurrentAirspace.name
    /\ SequenceError => NamesAirspaceAndSequence(error)

\* C3: with validateGeometries and without fixGeometries an invalid polygon aborts
\* the conversion with an error that names the airspace and the sequence number.
C3_InvalidGeometryErrorNamesAirspaceAndSequence ==
    (cfg.validateGeometries /\ ~cfg.fixGeometries) =>
        /\ (pc = "emit" => validate(geometry).ok)
        /\ (pc = "failed" /\ error.kind = "GeometryInvalid" => NamesAirspaceAndSequence(error))

\* the ring buffer closed as the assembler closes it
ClosedBuffer(buffer) ==
    IF buffer[1] = buffer[Len(buffer)] THEN buffer ELSE buffer \o <<buffer[1]>>

\* C4: every polygon the assembler produces has a closed exterior ring of at least 4
\* positions, and the first coordinate is appended to the accumulated ring only when
\* the ring is not already closed.
C4_RingClosedWithAtLeastFourPositions ==
    (pc = "applied" /\ fnOut.ok) =>
        /\ Len(fnOut.ring) >= 4
        /\ fnOut.ring[1] = fnOut.ring[Len(fnOut.ring)]
        /\ fnOut.ring \in {ClosedBuffer(fnIn), Reverse(ClosedBuffer(fnIn))}

\* a polygon assembled from a buffer that was already closed
C4_Witness ==
    /\ pc = "applied"
    /\ fnOut.ok
    /\ Len(fnIn) = 4
    /\ fnIn[1] = fnIn[4]
    /\ Len(fnOut.ring) = 4

\* every feature pushed so far in this call
EmittedFeatures ==
    IF pc = "done" THEN result[1] ELSE geojsonFeatures \o airspaceFeatures

\* C5: every polygon emitted in a feature has its exterior ring in counter-clockwise
\* order (the shoelace signed area with longitude as x and latitude as y is not
\* negative), also when the polygon went through repair.
C5_EmittedRingsCounterClockwise ==
    \A k \in 1..Len(EmittedFeatures) : SignedArea2(EmittedFeatures[k].geometry, 1)[1] >= 0

DistinctPoints(buffer) == {buffer[i] : i \in 1..Len(buffer)}

\* C6: the assembler fails whenever fewer than 3 distinct points remain in the
\* accumulated ring, whatever the buffer holds.
C6_FewerThanThreeDistinctPointsFail ==
    (pc = "applied" /\ Cardinality(DistinctPoints(fnIn)) < 3) => ~fnOut.ok

\* C7: the ring buffer is empty when the boundary resolution of a sequence begins,
\* whatever calls and sequences came before; an arc is resolved only after an earlier
\* segment of the same boundary, and an arc that opens a boundary fails with
\* InvalidBoundary.
C7_ArcContinuesOnlyItsOwnBoundary ==
    /\ [](pc = "boundary" /\ bi = 1 => boundaryCoordinates = <<>>)
    /\ [](pc = "boundary" /\ bi > 1 /\ CurrentSequence.boundary[bi - 1].kind = "arc" => bi > 2)
    /\ [][(/\ pc = "boundary"
           /\ bi = 1
           /\ bi <= Len(CurrentSequence.boundary)
           /\ CurrentSequence.boundary[bi].kind = "arc")
          => (pc' = "failed" /\ error'.kind = "InvalidBoundary")]_vars

\* an arc opens the boundary of a second sequence, after the first sequence of the
\* airspace accumulated its points
C7_Witness ==
    /\ pc = "failed"
    /\ error.kind = "InvalidBoundary"
    /\ si = 2
    /\ bi = 1
    /\ CurrentSequence.boundary[1].kind = "arc"
    /\ boundaryCoordinates = <<>>

\* the bearing in whole degrees, 0..359, of q seen from p
BearingDegrees(p, q) == (BearingQ(p, q)[1] \div BearingQ(p, q)[2]) % 360

\* how far the bearing b lies from the bearing `from` in the direction dir
Advance(dir, from, b) == IF dir = "cw" THEN (b - from) % 360 ELSE (from - b) % 360

\* C8: the points appended for an arc begin at the bearing of the previously
\* accumulated point and end at the bearing of `to`, the bearing advancing
\* monotonically, clockwise for cw and counter-clockwise for ccw, and the number of
\* steps is geometryDetail.
C8_ArcAdvancesFromPreviousPointToTo ==
    (pc = "applied" /\ fnOut.ok) =>
        LET coords == fnOut.coordinates
            n == Len(coords)
            centre == transformCoordinates(fnIn.centre)
            from == BearingDegrees(centre, fnIn.boundaryCoordinates[1])
            to == BearingDegrees(centre, transformCoordinates(fnIn.to))
            adv(i) == Advance(fnIn.dir, from, BearingDegrees(centre, coords[i]))
        IN  /\ n = fnIn.geometryDetail + 1
            /\ BearingDegrees(centre, coords[1]) = from
            /\ BearingDegrees(centre, coords[n]) = to
            /\ \A i \in 1..(n - 2) : adv(i) <= adv(i + 1)
            /\ n > 1 => (adv(n - 1) <= adv(n) \/ adv(n) = 0)

\* C9: the taxonomy mapping is total and deterministic, and every combination
\* outside the tables fails with UnmappedTaxonomy naming the airspace.
C9_UnmappedTaxonomyNamesAirspace ==
    /\ InSequence => SequenceProperties(identifier, sequenceNumber).ok
    /\ (pc = "failed" /\ error.kind = "UnmappedTaxonomy") =>
            error.airspace = CurrentAirspace.name

\* the one-to-one type table as the claim lists it, and with the types a rule puts
\* in place of the airspace type
ListedTypeTable ==
    [CTA |-> "CTA", TMA |-> "TMA", CTR |-> "CTR", ATZ |-> "ATZ",
     D |-> "DANGER", P |-> "PROHIBITED", R |-> "RESTRICTED"]
FullTypeTable ==
    [CTA |-> "CTA", TMA |-> "TMA", CTR |-> "CTR", ATZ |-> "ATZ",
     D |-> "DANGER", P |-> "PROHIBITED", R |-> "RESTRICTED",
     TMZ |-> "TMZ", RMZ |-> "RMZ", TRA |-> "TRA"]

\* type and class are present and every raw value is in its allowed set
TypeAndClassGiven ==
    /\ pc = "applied"
    /\ fnIn.airspaceClass # NULL
    /\ fnIn.type \in ALLOWED_TYPES
    /\ fnIn.localType \in ALLOWED_LOCALTYPES \cup {NULL}
    /\ fnIn.airspaceClass \in ALLOWED_CLASSES

MapsThrough(table) ==
    LET type == OverrideType(fnIn.type, fnIn.airspaceRules)
    IN  IF type \in DOMAIN table
        THEN /\ fnOut.ok
             /\ fnOut.type = table[type]
             /\ fnOut.class = fnIn.airspaceClass
        ELSE /\ ~fnOut.ok
             /\ fnOut.error.kind = "UnmappedTaxonomy"

\* C10 as stated: with type and class present the output type comes from the table
\* CTA, TMA, CTR, ATZ, D, P, R and the class passes through; a type with no entry in
\* it fails with UnmappedTaxonomy, whatever localType is given.
C10_Original == TypeAndClassGiven => MapsThrough(ListedTypeTable)

\* C10 (amended): with type and class present the output type comes from the table
\* CTA, TMA, CTR, ATZ, TMZ, RMZ, TRA (passed through) and D, P, R (spelled out),
\* looked up with the type a TMZ/TRA/RMZ rule puts in place of the airspace type, and
\* the class passes through; a type with no entry fails with UnmappedTaxonomy,
\* whatever localType is given.
C10_TypeAndClassMapThroughTypeTable == TypeAndClassGiven => MapsThrough(FullTypeTable)

\* a class and a localtype of the type+localtype table are both given: the pair is
\* not looked up and the type, which has no entry, fails
C10_Witness ==
    /\ TypeAndClassGiven
    /\ fnIn.type = "OTHER"
    /\ fnIn.localType = "GLIDER"
    /\ fnIn.airspaceRules = None
    /\ ~fnOut.ok

\* the raw values pass the three membership checks and the rules hold an override flag
OverrideFlagGiven ==
    /\ pc = "applied"
    /\ CheckAllowed("A", fnIn.type, fnIn.localType, fnIn.airspaceClass).ok
    /\ fnIn.airspaceRules # None
    /\ \E i \in 1..Len(fnIn.airspaceRules[1]) : fnIn.airspaceRules[1][i] \in {"TMZ", "TRA", "RMZ"}

\* the first override flag in list order
FirstFlag(rules) ==
    rules[CHOOSE i \in 1..Len(rules) :
              /\ rules[i] \in {"TMZ", "TRA", "RMZ"}
              /\ \A j \in 1..(i - 1) : rules[j] \notin {"TMZ", "TRA", "RMZ"}]

\* C11: when the rules hold one of the override flags TMZ, TRA, RMZ, the first such
\* flag in list order takes the place of the airspace type before the type/class, the
\* type/localType and the type-only mapping run: with a class the output is the flag
\* with that class, without one the outcome is that of the flag in the type/localType
\* table or in the type-only table, and the airspace's own type plays no part.
C11_RuleFlagReplacesType ==
    OverrideFlagGiven =>
        LET flag == FirstFlag(fnIn.airspaceRules[1])
        IN  /\ fnIn.airspaceClass # NULL =>
                  fnOut = Mapped(flag, fnIn.airspaceClass, NULL)
            /\ (fnIn.airspaceClass = NULL /\ fnIn.localType # NULL) =>
                  fnOut = MapTypeAndLocalType("A", flag, fnIn.localType)
            /\ (fnIn.airspaceClass = NULL /\ fnIn.localType = NULL) =>
                  fnOut = MapTypeOnly("A", flag)

\* type CTA with class E and rules [TMZ] gives type TMZ with class E
C11_Witness ==
    /\ OverrideFlagGiven
    /\ fnIn.type = "CTA"
    /\ fnIn.airspaceClass = "E"
    /\ fnIn.airspaceRules = Some(<<"TMZ">>)
    /\ fnOut = Mapped("TMZ", "E", NULL)

\* localType GVS is given with the type `type`, without a class and without an
\* override flag in the rules
GasVentingStation(type) ==
    /\ pc = "applied"
    /\ fnIn.type = type
    /\ fnIn.airspaceClass = NULL
    /\ fnIn.localType = "GVS"
    /\ OverrideType(type, fnIn.airspaceRules) = type

\* C12 as stated: type "D", no class and localType "GVS" map to type WARNING with
\* class UNCLASSIFIED.
C12_Original ==
    GasVentingStation("D") => fnOut = Mapped("WARNING", "UNCLASSIFIED", NULL)

\* C12 (amended): type "D_OTHER", no class and localType "GVS" map to type WARNING
\* with class UNCLASSIFIED; type "D" with localType "GVS" has no entry in the
\* type/localType table and fails with UnmappedTaxonomy.
C12_GasVentingStationMapsToWarning ==
    /\ GasVentingStation("D_OTHER") => fnOut = Mapped("WARNING", "UNCLASSIFIED", NULL)
    /\ GasVentingStation("D") => (~fnOut.ok /\ fnOut.error.kind = "UnmappedTaxonomy")

\* the gas venting station of type D_OTHER, mapped
C12_Witness ==
    /\ GasVentingStation("D_OTHER")
    /\ fnIn.airspaceRules = None
    /\ fnOut.ok
    /\ fnOut.type = "WARNING"

\* the number with which the string begins is followed by the unit and, when
\* withSurface, by SFC (whitespace apart)
FeetForm(def, withSurface) ==
    /\ REGEX_CEILING_FEET(def)
    /\ withSurface <=> (\E i \in 1..Len(def) : def[i].t = "SFC")

\* C13: the parser accepts three mutually exclusive forms: "SFC" gives {0, FT, GND};
\* a number optionally followed by ft/FT and optionally by SFC gives {value, FT, MSL},
\* or {value, FT, GND} when SFC is present; "FL" followed by a number gives
\* {value, FL, STD}.  "FL115" gives {115, FL, STD} and "1500 ft" gives {1500, FT, MSL}.
C13_ThreeFormsOfVerticalLimit ==
    pc = "applied" =>
        /\ ~(REGEX_CEILING_SURFACE(fnIn) /\ REGEX_CEILING_FEET(fnIn))
        /\ ~(REGEX_CEILING_SURFACE(fnIn) /\ REGEX_CEILING_FLIGHT_LEVEL(fnIn))
        /\ ~(REGEX_CEILING_FEET(fnIn) /\ REGEX_CEILING_FLIGHT_LEVEL(fnIn))
        /\ fnIn = <<Word("SFC")>> =>
              /\ fnOut.ok
              /\ fnOut.ceiling = [value |-> [nan |-> FALSE, num |-> 0, den |-> 1],
                                  unit |-> "FT", referenceDatum |-> "GND"]
        /\ FeetForm(fnIn, FALSE) =>
              /\ fnOut.ok
              /\ fnOut.ceiling = [value |-> parseFloat(fnIn[1]), unit |-> "FT",
                                  referenceDatum |-> "MSL"]
        /\ FeetForm(fnIn, TRUE) =>
              /\ fnOut.ok
              /\ fnOut.ceiling = [value |-> parseFloat(fnIn[1]), unit |-> "FT",
                                  referenceDatum |-> "GND"]
        /\ (REGEX_CEILING_FLIGHT_LEVEL(fnIn) /\ fnIn[Len(fnIn)].t = "num") =>
              /\ fnOut.ok
              /\ fnOut.ceiling = [value |-> parseInt(<<fnIn[Len(fnIn)]>>), unit |-> "FL",
                                  referenceDatum |-> "STD"]
        /\ fnIn = <<Word("FL"), Digits(<<1, 1, 5>>, <<>>)>> =>
              fnOut.ceiling.value = [nan |-> FALSE, num |-> 115, den |-> 1]
        /\ fnIn = <<Digits(<<1, 5, 0, 0>>, <<>>), Word(" "), Word("ft")>> =>
              fnOut.ceiling.value = [nan |-> FALSE, num |-> 1500, den |-> 1]

\* C14: for every input string the parser either returns a record whose value is an
\* integer, whose unit is FT or FL and whose referenceDatum is GND, STD or MSL, or
\* fails with InvalidVerticalLimit naming the airspace and the sequence number.
C14_VerticalLimitOrInvalidVerticalLimit ==
    pc = "applied" =>
        IF fnOut.ok
        THEN /\ ~fnOut.ceiling.value.nan
             /\ fnOut.ceiling.value.num % fnOut.ceiling.value.den = 0
             /\ fnOut.ceiling.unit \in {"FT", "FL"}
             /\ fnOut.ceiling.referenceDatum \in {"GND", "STD", "MSL"}
        ELSE /\ fnOut.error.kind = "InvalidVerticalLimit"
             /\ fnOut.error.airspace = "A"
             /\ fnOut.error.seq = Some(1)

\* the features pushed so far for the airspace being processed, each with the sequence
\* it was made from: <<feature, sequence>>
FeaturesOfCurrentAirspace ==
    IF pc \in {"sequences", "boundary", "fix", "validate", "emit"}
    THEN [k \in 1..Len(airspaceFeatures) |-> <<airspaceFeatures[k], CurrentAirspace.geometry[k]>>]
    ELSE <<>>

\* C15 as stated: the feature name is the airspace name suffixed with the sequence
\* number when the airspace has more than one sequence (for every one of them), and
\* the unsuffixed airspace name when the airspace has a single sequence.
C15_Original ==
    \A k \in 1..Len(FeaturesOfCurrentAirspace) :
        FeaturesOfCurrentAirspace[k][1].name =
            IF Len(CurrentAirspace.geometry) > 1
            THEN <<CurrentAirspace.name, SequenceNumberOf(FeaturesOfCurrentAirspace[k][2].seq)>>
            ELSE <<CurrentAirspace.name>>

\* C15 (amended): the feature name is the airspace name suffixed with the seq of its
\* sequence when the sequence carries a seq, and the unsuffixed airspace name when it
\* carries none, however many sequences the airspace has.
C15_NameSuffixedWithSeqWhenGiven ==
    \A k \in 1..Len(FeaturesOfCurrentAirspace) :
        FeaturesOfCurrentAirspace[k][1].name =
            IF FeaturesOfCurrentAirspace[k][2].seq # None
            THEN <<CurrentAirspace.name, FeaturesOfCurrentAirspace[k][2].seq[1]>>
            ELSE <<CurrentAirspace.name>>

\* both features of an airspace with two sequences are pushed, the first from a
\* sequence without seq, the second named with its seq
C15_Witness ==
    /\ Len(FeaturesOfCurrentAirspace) = 2
    /\ Len(CurrentAirspace.geometry) = 2
    /\ CurrentAirspace.geometry[1].seq = None
    /\ FeaturesOfCurrentAirspace[1][1].name = <<CurrentAirspace.name>>
    /\ FeaturesOfCurrentAirspace[2][1].name = <<CurrentAirspace.name, 2>>

\* the polygon the assembler made of the ring buffer of the current sequence
AssembledRing == AssemblePolygon(boundaryCoordinates).ring

\* C16: the repairer is applied only when fixGeometries is enabled (it is disabled by
\* default) and the validator reports the assembled polygon invalid; in every other
\* case the geometry that is validated and emitted in the feature is exactly the
\* polygon produced by the assembler.
C16_RepairOnlyWhenEnabledAndInvalid ==
    /\ [](~DEFAULT_CONFIG.fixGeometries)
    /\ []((pc \in {"validate", "emit"} /\ (~cfg.fixGeometries \/ isValid(AssembledRing)))
              => geometry = AssembledRing)
    /\ [][(pc = "emit" /\ pc' = "sequences")
              => airspaceFeatures'[Len(airspaceFeatures')].geometry = geometry]_vars

\* with repair enabled a valid polygon reaches the feature as it was assembled
C16_Witness ==
    /\ pc = "emit"
    /\ cfg.fixGeometries
    /\ isValid(AssembledRing)
    /\ geometry = AssembledRing

\* C17: with repair enabled, for every invalid polygon handed to the repairer the
\* outcome is either a polygon that passes the validator's isValid check or a
\* RepairFailed error: never a polygon that is still invalid, never another error.
C17_RepairedPolygonValidOrRepairFailed ==
    (pc = "applied" /\ fnOut.op = "fixGeometry" /\ ~isValid(AssemblePolygon(fnIn).ring)) =>
        IF fnOut.out.ok
        THEN \A ring \in fnOut.out.rings : isValid(ring)
        ELSE fnOut.out.error.kind = "RepairFailed"

\* the repair stages applied in order, each to the output of the one before
StagedRepair(coordinates) ==
    LargestOrEnvelope(
        removeDuplicates(coordinates),
        UnkinkedPolygons(ClosedLineString(removeIntermediatePoints(removeDuplicates(coordinates)))))

\* C18: the repairer applies its stages in order, each on the output of the previous
\* one: the line that is closed into a polygon and unkinked is built from the points
\* left by deduplication and then by the collapse of intermediate points, so that a
\* four-point ring with one point duplicated is re-polygonized as three distinct
\* boundary points plus closure.
C18_RepairStagesInOrder ==
    (pc = "applied" /\ fnOut.op = "createFixedPolygon") =>
        fnOut.out = StagedRepair(AssemblePolygon(fnIn).ring)

\* position k of `kept` sequence indexes into `coordinates`, strictly increasing
IsKeptIndices(idx, coordinates, kept) ==
    /\ Len(idx) = Len(kept)
    /\ \A k \in 1..Len(idx) : idx[k] \in 1..Len(coordinates) /\ kept[k] = coordinates[idx[k]]
    /\ \A k \in 1..(Len(idx) - 1) : idx[k] < idx[k + 1]

ServicesControlling(id) == {i \in 1..Len(services) : id \in services[i].controls}

\* C20: a feature carries groundService exactly when its source airspace has an id and
\* some service's controls contain that id; it then holds the callsign and the
\* frequency of the first such service in list order; with no id or no matching
\* service the property is omitted.
C20_GroundServiceOfFirstControllingService ==
    \A k \in 1..Len(FeaturesOfCurrentAirspace) :
        LET groundService == FeaturesOfCurrentAirspace[k][1].groundService
            matching == ServicesControlling(CurrentAirspace.id)
        IN  IF CurrentAirspace.id # NULL /\ matching # {}
            THEN LET first == CHOOSE i \in matching : \A j \in matching : i <= j
                 IN  groundService = Some([callsign |-> services[first].callsign,
                                           frequency |-> services[first].frequency])
            ELSE groundService = None

\* two services control the airspace, neither is the first of the file, and the
\* feature holds the earlier one with its frequency padded to three decimals
C20_Witness ==
    /\ Len(FeaturesOfCurrentAirspace) >= 1
    /\ Cardinality(ServicesControlling(CurrentAirspace.id)) = 2
    /\ 1 \notin ServicesControlling(CurrentAirspace.id)
    /\ FeaturesOfCurrentAirspace[1][1].groundService =
           Some([callsign |-> "TOWER", frequency |-> <<123, <<4, 0, 0>>>>])

\* the decimals of the frequency a feature of the current airspace carries
GroundServiceDecimals(feature) == feature.groundService[1].frequency[2]

\* C21: every frequency attached as groundService has exactly three decimal places,
\* zero-padded, whatever frequency the service list holds.
C21_GroundServiceFrequencyHasThreeDecimals ==
    \A k \in 1..Len(FeaturesOfCurrentAirspace) :
        FeaturesOfCurrentAirspace[k][1].groundService # None
            => Len(GroundServiceDecimals(FeaturesOfCurrentAirspace[k][1])) = 3

\* C22: with a service list supplied, no service record makes convert abort: a call
\* never fails on a record of the service list, whether the record lacks its controls
\* or its frequency.
C22_ServiceRecordNeverAbortsConvert ==
    ~(pc = "failed" /\ error = ServiceFrequencyError)

\* the class and the rules in force for a sequence of an airspace
EffectiveClass(airspace, sequence) ==
    IF sequence.class # NULL THEN sequence.class ELSE airspace.class
EffectiveRules(airspace, sequence) ==
    IF sequence.rules # None THEN sequence.rules ELSE airspace.rules

\* C28: the class and rules used for a feature are those of its GeometrySequence when
\* the sequence defines them and otherwise the airspace's base class and rules
\* (sequence rules replace the base rules); activatedByNotam is true exactly when the
\* effective rules contain NOTAM and remarks lists exactly the effective rules.
C28_SequenceClassAndRulesReplaceBase ==
    \A k \in 1..Len(FeaturesOfCurrentAirspace) :
        LET feature == FeaturesOfCurrentAirspace[k][1]
            rules == EffectiveRules(CurrentAirspace, FeaturesOfCurrentAirspace[k][2])
            mapped == mapClassAndType(CurrentAirspace.name, CurrentAirspace.type,
                                      CurrentAirspace.localtype,
                                      EffectiveClass(CurrentAirspace,
                                                     FeaturesOfCurrentAirspace[k][2]),
                                      rules)
        IN  /\ mapped.ok
            /\ feature.type = mapped.type
            /\ feature.class = mapped.class
            /\ feature.remarks = rules
            /\ feature.activatedByNotam
                  <=> (rules # None /\ \E i \in 1..Len(rules[1]) : rules[1][i] = "NOTAM")

\* an airspace with base rules SI and no base class: its first feature inherits the
\* base rules, its second one carries only the rules and the class of its sequence
C28_Witness ==
    /\ Len(FeaturesOfCurrentAirspace) = 2
    /\ CurrentAirspace.rules = Some(<<"SI">>)
    /\ CurrentAirspace.class = NULL
    /\ FeaturesOfCurrentAirspace[1][2].rules = None
    /\ FeaturesOfCurrentAirspace[1][1].remarks = Some(<<"SI">>)
    /\ ~FeaturesOfCurrentAirspace[1][1].activatedByNotam
    /\ FeaturesOfCurrentAirspace[2][2].class = "D"
    /\ FeaturesOfCurrentAirspace[2][1].class = "D"
    /\ FeaturesOfCurrentAirspace[2][1].remarks = Some(<<"NOTAM", "TMZ">>)
    /\ FeaturesOfCurrentAirspace[2][1].activatedByNotam

\* the features call c may have under construction or pushed for sequence k of its
\* airspace when no other call runs on the converter
FeaturesAlone(call, k) ==
    SequenceOutcome(cfg, IF k = 1 THEN call.doc[1].name ELSE UNDEFINED,
                    Some(SequenceNumberOf(call.doc[1].geometry[k].seq)), call.doc[1],
                    call.doc[1].geometry[k], <<>>).features

\* every ring, under construction or pushed, is made of the points of its own sequence
RingsOfOwnSequence ==
    \A c \in DOMAIN calls :
        /\ calls[c].pending # None
              => \E f \in FeaturesAlone(calls[c], calls[c].si) :
                    f.geometry = calls[c].pending[1].geometry
        /\ \A k \in 1..Len(calls[c].features) :
              \E f \in FeaturesAlone(calls[c], k) :
                 f.geometry = calls[c].features[k].geometry

\* C23: a conversion call has no suspension points: each GeometrySequence is
\* processed to completion before any other sequence is processed, so with two
\* convert calls started on the same converter no sequence is under construction
\* while the other call has one under construction, and no ring receives points
\* resolved for a different sequence.
C23_SequencesOfTwoCallsNeverInterleave ==
    /\ \A c, d \in DOMAIN calls :
           c # d => ~(calls[c].pc = "service" /\ calls[d].pc = "service")
    /\ RingsOfOwnSequence

\* C24: there is no shared mutable singleton: constructing a converter with
\* configuration overrides leaves the default configuration unchanged, so a converter
\* constructed afterwards without overrides gets validateGeometries = true,
\* fixGeometries = false and geometryDetail = 100.
C24_DefaultConfigurationNeverChanges ==
    /\ defaultConfig = DefaultConfigModule
    /\ pc = "constructed" /\ fnOut.ok /\ (\A key \in DOMAIN fnIn : fnIn[key] = None)
          => /\ fnOut.config.validateGeometries = Some(TRUE)
             /\ fnOut.config.fixGeometries = Some(FALSE)
             /\ fnOut.config.geometryDetail = Some(100)

\* C30: after a convertFromBuffer or convertFromFile call that throws for any reason,
\* toGeojson returns no data and toGeojsonFile fails with 'No GeoJSON data to write to
\* file': the result of an earlier successful call is never readable after a later
\* failed call.
C30_NothingReadableAfterFailedCall ==
    error # NoError
        => /\ geojson = None
           /\ pc = "toGeojson" => result.value = None
           /\ pc = "toGeojsonFile" => result.thrown = "No GeoJSON data to write to file"

(***************************************************************************)
(* The formatter.  A file is well formed when every AC line has a line     *)
(* of its block after it: the next token that is not blank or a comment    *)
(* is neither another AC line nor the end of the file.  A block of the     *)
(* fixed file runs from its AC line to the last line before the next AC    *)
(* line that is neither blank nor a comment.                               *)
(***************************************************************************)
WellFormedFile(tokens) ==
    \A idx \in 1..Len(tokens) : tokens[idx].type = "AC" => isBlockToken(tokens, idx)

Formatted == pc = "applied" /\ fnOut.ok /\ WellFormedFile(fnIn.tokens)

AcLines(lines) == {p \in 1..Len(lines) : lines[p].type = "AC"}

BlockEnd(lines, p) ==
    CHOOSE e \in p..Len(lines) :
        /\ lines[e].type \notin {"BLANK", "COMMENT"}
        /\ \A j \in (p + 1)..e : lines[j].type # "AC"
        /\ \A j \in (e + 1)..Len(lines) :
               (\A k \in (p + 1)..j : lines[k].type # "AC")
                   => lines[j].type \in {"BLANK", "COMMENT"}

BlockOf(lines, p) == SubSeq(lines, p, BlockEnd(lines, p))

C26_LastDpEqualsFirstDp ==
    Formatted =>
        \A p \in AcLines(fnOut.formatted) :
            LET dps == SelectSeq(BlockOf(fnOut.formatted, p), LAMBDA t : t.type = "DP")
            IN  dps # <<>> => dps[Len(dps)] = dps[1]

RECURSIVE IsSubsequence(_, _)
IsSubsequence(s, t) ==
    IF s = <<>> THEN TRUE
    ELSE IF t = <<>> THEN FALSE
    ELSE IF Head(s) = Head(t) THEN IsSubsequence(Tail(s), Tail(t))
    ELSE IsSubsequence(s, Tail(t))

InExpectedOrder(lines) ==
    \A i, j \in 1..Len(lines) : i < j => orderWeight(lines[i].type) <= orderWeight(lines[j].type)

\* C27: with fixTokenOrder the blocks of the fixed file have no comment line and the
\* lines of the file above the geometry are in the expected order; without it the
\* lines of the file that are not blank are found in the fixed file in the order
\* they had.
C27_FixTokenOrderControlsReordering ==
    Formatted =>
        IF fnIn.fixTokenOrder
        THEN \A p \in AcLines(fnOut.formatted) :
                 LET block == BlockOf(fnOut.formatted, p)
                 IN  /\ \A j \in 1..Len(block) : block[j].type # "COMMENT"
                     /\ InExpectedOrder(SelectSeq(SubSeq(block, 1, FirstGeometryToken(block) - 1),
                                                  LAMBDA t : t # Token("AI", 0)))
        ELSE IsSubsequence(SelectSeq(fnIn.tokens, LAMBDA t : t.type \notin {"BLANK", "EOF"}),
                           fnOut.formatted)

(***************************************************************************)
(* The sequential overlap removal.  Two whole-degree bearings are exactly  *)
(* opposite when they differ by 180 degrees on the circle.                 *)
(***************************************************************************)
ExactlyOpposite(a, b) == (a - b) % 360 = 180

\* the walk that drops a point whenever the bearing to its next point is exactly
\* opposite to the bearing of the last kept leg
RECURSIVE DropReversalsFrom(_, _, _, _)
DropReversalsFrom(coordinates, index, kept, lastBearing) ==
    IF index > Len(coordinates) THEN kept
    ELSE IF index = Len(coordinates) THEN Append(kept, coordinates[index])
    ELSE IF /\ lastBearing # None
            /\ ExactlyOpposite(TruncatedBearing(coordinates[index], coordinates[index + 1]),
                               lastBearing[1])
    THEN DropReversalsFrom(coordinates, index + 1, kept, lastBearing)
    ELSE DropReversalsFrom(coordinates, index + 1, Append(kept, coordinates[index]),
                           Some(TruncatedBearing(coordinates[index], coordinates[index + 1])))

\* C29: removeOverlapPoints drops a point whenever the whole-degree bearing to its
\* next point is exactly opposite to the bearing of the last kept leg, whichever the
\* two opposite bearings are, and keeps every other point and the last point.
C29_EveryReversalDetected ==
    pc = "applied" /\ fnOut.op = "removeOverlapPoints"
        => fnOut.out = DropReversalsFrom(fnIn, 1, <<>>, None)

====
